---- MODULE Spec2Model ----
(***************************************************************************)
(* Scroll-driven aggregation, hydration, ordering and thread merge-back    *)
(* of the Teams chat exporter (content script).                            *)
(*                                                                         *)
(* Conventions                                                             *)
(*   - a JS value that may be null/undefined/NaN is a set with at most one *)
(*     element: {} is null, {v} is the value v;                            *)
(*   - text, author and timestamp strings are sequences of one-character   *)
(*     strings, so that trim(), toLowerCase() and slice() are computed;    *)
(*   - ids are plain strings, "" is the empty (falsy) id;                  *)
(*   - orderKey is kept in tenths (orderKey10 = 10 * orderKey) because the *)
(*     Finalizer assigns orderKey = tsMs - 0.1.                            *)
(***************************************************************************)
EXTENDS Integers, Sequences, FiniteSets, TLC

\* ------------------------------------------------------------------------
\* Nullable values
\* ------------------------------------------------------------------------
Null == {}
Some(x) == {x}
IsNull(o) == o = {}
Val(o) == CHOOSE x \in o : TRUE
\* JS  a ?? b
Coalesce(a, b) == IF a # {} THEN a ELSE b

Min2(a, b) == IF a <= b THEN a ELSE b
Max2(a, b) == IF a >= b THEN a ELSE b

\* ------------------------------------------------------------------------
\* Strings as sequences of characters
\* ------------------------------------------------------------------------
EmptyStr == <<>>
IsSpace(c) == c = " "
LowerChar(c) ==
    CASE c = "H" -> "h"
      [] c = "A" -> "a"
      [] c = "B" -> "b"
      [] OTHER -> c
\* String.prototype.toLowerCase
Lower(s) == [i \in 1..Len(s) |-> LowerChar(s[i])]
\* String.prototype.slice(0, n)
Slice0(s, n) == IF Len(s) <= n THEN s ELSE SubSeq(s, 1, n)
\* String.prototype.trim
Trim(s) ==
    LET nonSpace == {i \in 1..Len(s) : ~IsSpace(s[i])}
    IN  IF nonSpace = {} THEN EmptyStr
        ELSE LET lo == CHOOSE i \in nonSpace : \A j \in nonSpace : i <= j
                 hi == CHOOSE i \in nonSpace : \A j \in nonSpace : j <= i
             IN  SubSeq(s, lo, hi)

\* ------------------------------------------------------------------------
\* Time
\* ------------------------------------------------------------------------
\* Length of a local calendar day in the model's time unit.
DayMs == 2
\* Largest message time the surface can show.
MaxTime == 3
Times == 1..MaxTime

DigitValue(c) ==
    CASE c = "1" -> Some(1)
      [] c = "2" -> Some(2)
      [] c = "3" -> Some(3)
      [] c = "4" -> Some(4)
      [] c = "5" -> Some(5)
      [] OTHER -> Null
\* Date.parse: a number, or NaN (Null) for a string that is no date.
DateParse(s) == IF Len(s) = 1 THEN DigitValue(s[1]) ELSE Null
\* utils/time parseTimeStamp: ms, or null for an empty or unparsable string.
parseTimeStamp(s) == IF s = EmptyStr THEN Null ELSE DateParse(s)
\* utils/time startOfLocalDay: the first instant of ts's calendar day.
startOfLocalDay(ts) == (ts \div DayMs) * DayMs

\* ------------------------------------------------------------------------
\* Stable sort.  SortIdx(k1, k2) is the permutation of 1..Len(k1) that
\* Array.prototype.sort produces for a comparator ordering by k1, then k2
\* (equal elements keep their order).
\* ------------------------------------------------------------------------
KeyLess(k1, k2, i, j) == k1[i] < k1[j] \/ (k1[i] = k1[j] /\ k2[i] < k2[j])

RECURSIVE InsertIdx(_, _, _, _)
InsertIdx(k1, k2, sorted, i) ==
    IF sorted = <<>> THEN <<i>>
    ELSE IF KeyLess(k1, k2, i, Head(sorted))
         THEN <<i>> \o sorted
         ELSE <<Head(sorted)>> \o InsertIdx(k1, k2, Tail(sorted), i)

RECURSIVE SortIdxUpTo(_, _, _)
SortIdxUpTo(k1, k2, n) ==
    IF n = 0 THEN <<>>
    ELSE InsertIdx(k1, k2, SortIdxUpTo(k1, k2, n - 1), n)

SortIdx(k1, k2) == SortIdxUpTo(k1, k2, Len(k1))
Zeros(n) == [i \in 1..n |-> 0]
Permute(s, perm) == [i \in 1..Len(perm) |-> s[perm[i]]]

\* ------------------------------------------------------------------------
\* Records (types/shared.ts ExportMessage, AggregatedItem)
\* ------------------------------------------------------------------------
\* The fields of ExtractedMessage the engine reads.  threadId "" stands for
\* null/undefined (the code only tests it for truthiness).
MkMsg(id, threadId, author, timestamp, text, system) ==
    [id |-> id, threadId |-> threadId, author |-> author,
     timestamp |-> timestamp, text |-> text, system |-> system,
     edited |-> FALSE, reactions |-> Null, attachments |-> Null,
     tables |-> Null]

MkEntry(message, orderKey10, tsMs, kind) ==
    [message |-> message, orderKey10 |-> orderKey10, tsMs |-> tsMs,
     kind |-> kind, anchorTs |-> Null]

SystemAuthor == <<"[", "s", "]">>

\* utils/messages makeDayDivider: the synthetic calendar separator of a day
\* bucket; its label is derived from the day and its timestamp from ts.
DayLabel(dayKey) == <<"d", ToString(dayKey)>>
TimeToStr(ts) == <<ToString(ts)>>
makeDayDivider(dayKey, ts) ==
    [message |-> MkMsg("day-" \o ToString(dayKey), "", SystemAuthor,
                       TimeToStr(ts), DayLabel(dayKey), TRUE),
     orderKey10 |-> 10 * ts - 5, tsMs |-> Some(ts), kind |-> "day-divider",
     anchorTs |-> Null]
IsDayDividerMsg(m) == m.system /\ Len(m.text) = 2 /\ m.text[1] = "d"

\* ------------------------------------------------------------------------
\* The aggregation map: a JS Map, i.e. keys in insertion order.
\* ------------------------------------------------------------------------
AggKeys(agg) == {agg[i].key : i \in 1..Len(agg)}
AggHas(agg, k) == k \in AggKeys(agg)
AggIndex(agg, k) == CHOOSE i \in 1..Len(agg) : agg[i].key = k
AggGet(agg, k) == agg[AggIndex(agg, k)].val
\* Map.prototype.set: replaces in place, or appends a new key.
AggSet(agg, k, v) ==
    IF AggHas(agg, k)
    THEN [agg EXCEPT ![AggIndex(agg, k)] = [key |-> k, val |-> v]]
    ELSE Append(agg, [key |-> k, val |-> v])
AggValues(agg) == [i \in 1..Len(agg) |-> agg[i].val]

\* ------------------------------------------------------------------------
\* Finalizer (autoScrollAggregate, after hydration)
\* ------------------------------------------------------------------------
SelectIdx(s, keep) == SelectSeq([i \in 1..Len(s) |-> i], LAMBDA i : i \in keep)

\* entries.sort((a, b) => a.orderKey - b.orderKey)
SortByOrderKey(entries) ==
    Permute(entries, SortIdx([i \in 1..Len(entries) |-> entries[i].orderKey10],
                             Zeros(Len(entries))))

\* One step of the reverse anchoring walk on entry e with the time of the
\* next (later) timestamped message.
AnchorEntry(e, nextMessageTs) ==
    IF e.kind # "message" /\ nextMessageTs # Null
       /\ (e.tsMs = Null \/ Val(e.tsMs) >= Val(nextMessageTs))
    THEN LET newTs == (IF e.tsMs = Null THEN Val(nextMessageTs) ELSE Val(e.tsMs)) - 1
         IN  [e EXCEPT !.anchorTs = nextMessageTs,
                       !.tsMs = Some(newTs),
                       !.orderKey10 = 10 * newTs - 1]
    ELSE e

\* The time carried to the entries before index i.
RECURSIVE NextMessageTsAfter(_, _)
NextMessageTsAfter(entries, i) ==
    IF i >= Len(entries) THEN Null
    ELSE LET e == entries[i + 1]
         IN  IF e.kind = "message" /\ e.tsMs # Null THEN e.tsMs
             ELSE NextMessageTsAfter(entries, i + 1)

AnchorPass(entries) ==
    [i \in 1..Len(entries) |-> AnchorEntry(entries[i], NextMessageTsAfter(entries, i))]

\* aTs of the second sort, in tenths: tsMs ?? anchorTs ?? orderKey ?? 0
SortTs10(e) ==
    IF e.tsMs # Null THEN 10 * Val(e.tsMs)
    ELSE IF e.anchorTs # Null THEN 10 * Val(e.anchorTs)
    ELSE e.orderKey10

DropDayDividers(entries) == SelectSeq(entries, LAMBDA e : e.kind # "day-divider")

SortByTime(entries) ==
    Permute(entries, SortIdx([i \in 1..Len(entries) |-> SortTs10(entries[i])],
                             [i \in 1..Len(entries) |-> entries[i].orderKey10]))

\* effective time: anchorTs ?? tsMs ?? parseTimeStamp(message.timestamp)
EffectiveTs(e) ==
    Coalesce(e.anchorTs, Coalesce(e.tsMs, parseTimeStamp(e.message.timestamp)))

\* A window whose end limit is included.
InWindowClosed(e, startLimit, endLimit) ==
    LET ts == EffectiveTs(e)
    IN  \/ ts = Null
        \/ /\ ~(startLimit # Null /\ Val(ts) < Val(startLimit))
           /\ ~(endLimit # Null /\ Val(ts) > Val(endLimit))

\* The filter of lines 464-470.
InWindow(e, startLimit, endLimit) ==
    LET ts == EffectiveTs(e)
    IN  \/ ts = Null
        \/ /\ ~(startLimit # Null /\ Val(ts) < Val(startLimit))
           /\ ~(endLimit # Null /\ Val(ts) >= Val(endLimit))

WindowFilter(entries, startLimit, endLimit) ==
    SelectSeq(entries, LAMBDA e : InWindow(e, startLimit, endLimit))

\* msg.system && (!msg.text || msg.text.trim().toLowerCase() === 'system')
SystemWord == <<"s", "y", "s">>
IsGenericSystem(m) ==
    m.system /\ (m.text = EmptyStr \/ Lower(Trim(m.text)) = SystemWord)
SystemSuppressed(m, includeSystem) ==
    (m.system /\ ~includeSystem) \/ IsGenericSystem(m)

\* The entries the bucketing loop does not skip (lines 476-485).
Survivors(filtered, includeSystem) ==
    SelectSeq(filtered, LAMBDA e : ~SystemSuppressed(e.message, includeSystem))

\* noDate: survivors with no resolvable time, in arrival order.
NoDateBucket(filtered, includeSystem) ==
    SelectSeq(Survivors(filtered, includeSystem), LAMBDA e : EffectiveTs(e) = Null)

DatedSurvivors(filtered, includeSystem) ==
    SelectSeq(Survivors(filtered, includeSystem), LAMBDA e : EffectiveTs(e) # Null)

DayKeyOf(e) == startOfLocalDay(Val(EffectiveTs(e)))

\* buckets.get(dayKey): {ts, message} items in arrival order.
DayBucket(filtered, includeSystem, dayKey) ==
    SelectSeq(DatedSurvivors(filtered, includeSystem), LAMBDA e : DayKeyOf(e) = dayKey)

\* A bucket sorted latest first.
SortBucketDescending(items) ==
    Permute(items, SortIdx([i \in 1..Len(items) |-> 0 - Val(EffectiveTs(items[i]))],
                           Zeros(Len(items))))

\* items.sort((a, b) => a.ts - b.ts)
SortBucket(items) ==
    Permute(items, SortIdx([i \in 1..Len(items) |-> Val(EffectiveTs(items[i]))],
                           Zeros(Len(items))))

\* One day bucket as emitted: the optional divider, then the sorted items.
EmitBucket(filtered, includeSystem, dayKey) ==
    LET items == DayBucket(filtered, includeSystem, dayKey)
        representativeTs == Val(EffectiveTs(items[1]))
        divider == IF includeSystem
                   THEN <<makeDayDivider(dayKey, representativeTs).message>>
                   ELSE <<>>
        sorted == SortBucket(items)
    IN  divider \o [i \in 1..Len(sorted) |-> sorted[i].message]

RECURSIVE EmitDays(_, _, _)
EmitDays(filtered, includeSystem, dayKeys) ==
    IF dayKeys = {} THEN <<>>
    ELSE LET d == CHOOSE k \in dayKeys : \A k2 \in dayKeys : k <= k2
         IN  EmitBucket(filtered, includeSystem, d)
             \o EmitDays(filtered, includeSystem, dayKeys \ {d})

\* finalMessages (lines 472-510).  The noDate list is filled by the loop but
\* no statement of the function reads it afterwards.
BucketAndEmit(filtered, includeSystem) ==
    LET dated == DatedSurvivors(filtered, includeSystem)
        dayKeys == {DayKeyOf(dated[i]) : i \in 1..Len(dated)}
    IN  EmitDays(filtered, includeSystem, dayKeys)

\* `${threadRoot}|${author}|${ts}|${text}` as one character sequence
DedupKey(m) ==
    <<m.threadId>> \o <<"|">> \o m.author \o <<"|">> \o m.timestamp
        \o <<"|">> \o Trim(m.text)

\* A deduplication that forgets a key when it skips a clone.
RECURSIVE DedupForgetting(_, _)
DedupForgetting(msgs, seenKeys) ==
    IF msgs = <<>> THEN <<>>
    ELSE LET key == DedupKey(Head(msgs))
         IN  IF key \in seenKeys
             THEN DedupForgetting(Tail(msgs), seenKeys \ {key})
             ELSE <<Head(msgs)>> \o DedupForgetting(Tail(msgs), seenKeys \cup {key})

RECURSIVE DedupFrom(_, _)
DedupFrom(msgs, seenKeys) ==
    IF msgs = <<>> THEN <<>>
    ELSE LET key == DedupKey(Head(msgs))
         IN  IF key \in seenKeys
             THEN DedupFrom(Tail(msgs), seenKeys)
             ELSE <<Head(msgs)>> \o DedupFrom(Tail(msgs), seenKeys \cup {key})

\* lines 512-535
Dedup(msgs) == DedupFrom(msgs, {})

\* The entries after the first sort and the anchoring walk (lines 437-454).
AnchoredEntries(agg) == AnchorPass(SortByOrderKey(AggValues(agg)))

\* The entries handed to the bucketing loop (lines 456-470).
FilteredEntries(agg, startLimit, endLimit) ==
    WindowFilter(SortByTime(DropDayDividers(AnchoredEntries(agg))),
                 startLimit, endLimit)

\* ------------------------------------------------------------------------
\* extractOne (the Item Extractor) as far as the engine depends on it: how
\* the order key, the resolved time and the rolling context are derived
\* from what the item shows.
\* ------------------------------------------------------------------------
\* Date.now() at session start; later than every time the surface shows.
SeqBase == 100
\* systemCursor starts at -9e15: below every time.
SystemCursorStart == -1000

YearOf(ts) == ts \div (2 * DayMs)

InitOrderCtx ==
    [lastTimeMs |-> Null, yearHint |-> Null, seq |-> 0,
     lastAuthor |-> EmptyStr, systemCursor |-> SystemCursorStart]

\* JS  a || b  on ids
OrId(a, b) == IF a # "" THEN a ELSE b
\* The characters of a text joined into an id
RECURSIVE StrOf(_)
StrOf(s) == IF s = <<>> THEN "" ELSE Head(s) \o StrOf(Tail(s))
\* `${ts}#${author}`, the id of a message that shows no data-mid (line 1494)
FallbackId(ts, author) == StrOf(ts) \o "#" \o StrOf(author)

\* What a message item shows: its data-mid, its chain id, the explicit
\* author (or none), the timestamp string, a numeric-mid time (or none)
\* and its text.
\* Lines 1401-1516.
ExtractMessage(raw, ctx) ==
    LET tms0 == IF raw.ts = EmptyStr THEN Null ELSE DateParse(raw.ts)
        author == IF raw.author # EmptyStr THEN raw.author ELSE ctx.lastAuthor
        useMid == tms0 = Null /\ raw.midMs # Null
        tms == IF useMid THEN raw.midMs ELSE tms0
        ts == IF useMid THEN TimeToStr(Val(raw.midMs)) ELSE raw.ts
        threadId == IF raw.chainId # "" THEN raw.chainId ELSE raw.mid
        finalMid == OrId(raw.mid, FallbackId(ts, author))
        msg == MkMsg(finalMid, threadId, author, ts, raw.text, FALSE)
        orderKey10 == IF tms # Null THEN 10 * Val(tms)
                      ELSE 10 * (SeqBase + ctx.seq)
    IN  [result |-> Some(MkEntry(msg, orderKey10, tms, "message")),
         ctx |-> [ctx EXCEPT
                    !.lastAuthor = author,
                    !.lastTimeMs = IF tms # Null THEN tms ELSE @,
                    !.yearHint = IF tms # Null THEN Some(YearOf(Val(tms))) ELSE @,
                    !.seq = @ + 1]]

\* What a control item shows: its id, its text, a parsed time (or none) and
\* a numeric-mid time (or none).  Lines 1331-1377.
ExtractSystemControl(raw, ctx) ==
    LET approxMs == IF raw.parsedTs # Null THEN Val(raw.parsedTs)
                    ELSE IF raw.midMs # Null THEN Val(raw.midMs)
                    ELSE IF ctx.lastTimeMs # Null THEN Val(ctx.lastTimeMs) - 1
                    ELSE ctx.systemCursor
        dividerId == OrId(raw.mid, StrOf(Lower(raw.text)))
        msg == MkMsg(dividerId, "", SystemAuthor, EmptyStr, raw.text, TRUE)
    IN  [result |-> Some(MkEntry(msg, 10 * approxMs, Some(approxMs), "system-control")),
         ctx |-> [ctx EXCEPT
                    !.systemCursor = @ + 1,
                    !.lastTimeMs = IF raw.parsedTs # Null THEN raw.parsedTs ELSE @,
                    !.yearHint = IF raw.parsedTs # Null
                                 THEN Some(YearOf(Val(raw.parsedTs))) ELSE @]]

\* A pure date divider.  Lines 1312-1329.
ExtractDayDivider(raw, ctx) ==
    LET tsVal == IF raw.parsedTs # Null THEN Val(raw.parsedTs)
                 ELSE IF raw.midMs # Null THEN Val(raw.midMs)
                 ELSE SeqBase
    IN  [result |-> Some(makeDayDivider(tsVal, tsVal)), ctx |-> ctx]

\* extractOne: the entry (or null) and the context it leaves.  raw.shape is
\* what the item is: "message", "control", "divider", or "skip" for an item
\* the extractor returns null for (an inline preview under an open-replies
\* button).  System shapes yield null unless includeSystem.
extractOne(raw, includeSystem, ctx) ==
    CASE raw.shape = "message" -> ExtractMessage(raw, ctx)
      [] raw.shape = "control" /\ includeSystem -> ExtractSystemControl(raw, ctx)
      [] raw.shape = "divider" /\ includeSystem -> ExtractDayDivider(raw, ctx)
      [] OTHER -> [result |-> Null, ctx |-> ctx]

\* ------------------------------------------------------------------------
\* collectCurrentVisible, one item (title.ts lines 549-577)
\* ------------------------------------------------------------------------
\* `${orderKey}` of a whole-number order key
OrderKeyStr(orderKey10) == ToString(orderKey10 \div 10)

\* agg.set(message.id || `${orderKey}`, {message, orderKey, tsMs, kind})
StoreKey(e) == IF e.message.id # "" THEN e.message.id ELSE OrderKeyStr(e.orderKey10)

\* The context after a stored entry (lines 567-576).
CtxAfterStore(ctx, m) ==
    LET tms == IF ~m.system /\ m.timestamp # EmptyStr THEN DateParse(m.timestamp) ELSE Null
    IN  [ctx EXCEPT
           !.lastTimeMs = IF tms # Null THEN tms ELSE @,
           !.yearHint = IF tms # Null THEN Some(YearOf(Val(tms))) ELSE @,
           !.lastAuthor = IF ~m.system /\ m.author # EmptyStr THEN m.author ELSE @]

\* The context after a day-divider result (lines 556-561).
CtxAfterDivider(ctx, e) ==
    IF e.tsMs # Null
    THEN [ctx EXCEPT !.lastTimeMs = e.tsMs, !.yearHint = Some(YearOf(Val(e.tsMs)))]
    ELSE ctx

\* A store that takes every result, whatever its kind.
AggAfterAnyResult(a, result) ==
    IF result = Null THEN a
    ELSE AggSet(a, StoreKey(Val(result)), [Val(result) EXCEPT !.anchorTs = Null])

\* The store after one extracted result (lines 555-566).
AggAfterResult(a, result) ==
    IF result = Null THEN a
    ELSE LET e == Val(result)
         IN  IF e.kind = "day-divider" THEN a
             ELSE AggSet(a, StoreKey(e), [e EXCEPT !.anchorTs = Null])

CtxAfterResult(ctx, result) ==
    IF result = Null THEN ctx
    ELSE LET e == Val(result)
         IN  IF e.kind = "day-divider" THEN CtxAfterDivider(ctx, e)
             ELSE CtxAfterStore(ctx, e.message)

\* ------------------------------------------------------------------------
\* hydrateSparseMessages (part_001 lines 969-1119)
\* ------------------------------------------------------------------------
\* "Loading..." as the surface shows it for a body that has not rendered.
PlaceholderText == <<"~">>
\* utils/text isPlaceholderText
isPlaceholderText(text) == Trim(text) = EmptyStr \/ Trim(text) = PlaceholderText

\* while (pending.length && attempts < 3)
MaxHydrationRounds == 3

\* A repair loop with no limit of rounds.
AlwaysRoundsLeft(n) == TRUE

\* attempts < 3 of the loop condition (line 1012)
RoundsLeft(n) == n < MaxHydrationRounds

\* JS  a || b  on strings
OrStr(a, b) == IF a # EmptyStr THEN a ELSE b

\* A round that stores the old message again.
KeepExisting(existing, fresh, id) == existing

\* The merged message of lines 1060-1082.  The object literal lists no
\* threadId, so the merged message has none.
MergeMessage(existing, fresh, id) ==
    [id |-> OrId(existing.id, OrId(fresh.id, id)),
     threadId |-> "",
     author |-> OrStr(fresh.author, existing.author),
     timestamp |-> OrStr(fresh.timestamp, existing.timestamp),
     text |-> OrStr(fresh.text, existing.text),
     edited |-> (existing.edited \/ fresh.edited),
     system |-> (existing.system \/ fresh.system),
     reactions |-> Coalesce(fresh.reactions, Coalesce(existing.reactions, Some(<<>>))),
     attachments |-> Coalesce(fresh.attachments, Coalesce(existing.attachments, Some(<<>>))),
     tables |-> Coalesce(fresh.tables, Coalesce(existing.tables, Some(<<>>)))]

\* The entry written back by agg.set(id, ...) (lines 1084-1096).
MergeEntry(existing, reExtracted, id) ==
    LET merged == MergeMessage(existing.message, reExtracted.message, id)
    IN  [message |-> merged,
         orderKey10 |-> existing.orderKey10,
         tsMs |-> Coalesce(reExtracted.tsMs,
                           Coalesce(existing.tsMs,
                                    IF merged.timestamp # EmptyStr
                                    THEN parseTimeStamp(merged.timestamp) ELSE Null)),
         kind |-> existing.kind,
         anchorTs |-> Null]

\* A write under a key derived from the id instead of the id itself.
RekeyedHydration(id, merged) == "h-" \o id

\* The key hydration writes the merged entry under.
HydrationKey(id, merged) == id

\* tempOrderCtx of a re-extraction (lines 1029-1039)
TempOrderCtx(existing) ==
    LET ts == IF existing.message.timestamp # EmptyStr
              THEN DateParse(existing.message.timestamp) ELSE Null
    IN  [lastTimeMs |-> ts,
         yearHint |-> IF ts # Null THEN Some(YearOf(Val(ts))) ELSE Null,
         seq |-> 0, lastAuthor |-> existing.message.author, systemCursor |-> 0]

\* ------------------------------------------------------------------------
\* mergeRepliesIntoMessages (part_001 lines 1787-1904)
\*
\* repliesByParent is a JS Map: a sequence of [key, val] in insertion order,
\* val the reply list collected for parent key.  The merged list is built as
\* a plan of slots, each naming the object it emits: [src |-> "top", i] is
\* messages[i], [src |-> "reply", p, j] is the j-th reply of the p-th map
\* entry.
\* ------------------------------------------------------------------------
\* (m.text || '').slice(0, 280)
LogicalPrefixLen == 280

\* (s || '').trim().toLowerCase()
normalize(str) == Lower(Trim(str))

logicalKey(m) ==
    normalize(m.author) \o <<"|">> \o normalize(m.timestamp) \o <<"|">>
        \o normalize(Slice0(m.text, LogicalPrefixLen))

ReplyKeys(rbp) ==
    UNION {{logicalKey(rbp[p].val[j]) : j \in 1..Len(rbp[p].val)} : p \in 1..Len(rbp)}

LogicalKeyUsable(key) == Trim(key) # EmptyStr

\* Suppression by the keys as written, without normalize.
RawKey(m) ==
    m.author \o <<"|">> \o m.timestamp \o <<"|">> \o Slice0(m.text, LogicalPrefixLen)
SuppressedByRawKey(messages, rbp) ==
    {i \in 1..Len(messages) :
        \E p \in 1..Len(rbp) : \E j \in 1..Len(rbp[p].val) :
            RawKey(rbp[p].val[j]) = RawKey(messages[i])}

\* suppressedBaseIndices (lines 1810-1833)
suppressedBaseIndices(messages, rbp) ==
    {i \in 1..Len(messages) :
        /\ LogicalKeyUsable(logicalKey(messages[i]))
        /\ logicalKey(messages[i]) \in {k \in ReplyKeys(rbp) : LogicalKeyUsable(k)}}

\* The map entry a retained message's replies are found under: the first of
\* [threadId, id] (empty ones dropped) with a non-empty list; 0 if none
\* (lines 1849-1863).
RbpIndex(rbp, k) ==
    IF k # "" /\ \E p \in 1..Len(rbp) : rbp[p].key = k /\ rbp[p].val # <<>>
    THEN CHOOSE p \in 1..Len(rbp) : rbp[p].key = k
    ELSE 0

\* A lookup that finds no thread for any record of the stream.
UnmatchedParent(rbp, m) == 0

\* keysToTry: the thread id first, then the record's own id (lines 1849-1863).
MatchedParent(rbp, m) ==
    IF RbpIndex(rbp, m.threadId) # 0 THEN RbpIndex(rbp, m.threadId)
    ELSE RbpIndex(rbp, m.id)

\* A step that appends nothing of a reply list.
SkipReplies(st, rbp, p, j) == st

\* Appending one reply list, deduplicated by id against everything emitted
\* (lines 1880-1884 and 1890-1894).  st = [plan, ids].
RECURSIVE AppendReplies(_, _, _, _)
AppendReplies(st, rbp, p, j) ==
    IF j > Len(rbp[p].val) THEN st
    ELSE LET reply == rbp[p].val[j]
         IN  IF reply.id # "" /\ reply.id \in st.ids
             THEN AppendReplies(st, rbp, p, j + 1)
             ELSE AppendReplies(
                    [plan |-> Append(st.plan, [src |-> "reply", p |-> p, j |-> j]),
                     ids |-> IF reply.id # "" THEN st.ids \cup {reply.id} ELSE st.ids,
                     inserted |-> st.inserted],
                    rbp, p, j + 1)

\* The walk over the top-level stream (lines 1841-1885).
RECURSIVE WalkTop(_, _, _, _, _)
WalkTop(st, messages, rbp, suppressed, i) ==
    IF i > Len(messages) THEN st
    ELSE IF i \in suppressed THEN WalkTop(st, messages, rbp, suppressed, i + 1)
    ELSE LET msg == messages[i]
             st1 == [plan |-> Append(st.plan, [src |-> "top", p |-> 0, j |-> i]),
                     ids |-> IF msg.id # "" THEN st.ids \cup {msg.id} ELSE st.ids,
                     inserted |-> st.inserted]
             p == MatchedParent(rbp, msg)
         IN  IF p = 0 THEN WalkTop(st1, messages, rbp, suppressed, i + 1)
             ELSE WalkTop(
                    AppendReplies([st1 EXCEPT !.inserted = @ \cup {rbp[p].key}],
                                  rbp, p, 1),
                    messages, rbp, suppressed, i + 1)

\* A merge that ends with the walk over the top-level stream.
DropOrphans(st, rbp, p) == st

\* Reply lists whose parent key was not matched go at the end (lines 1888-1895).
RECURSIVE AppendOrphans(_, _, _)
AppendOrphans(st, rbp, p) ==
    IF p > Len(rbp) THEN st
    ELSE IF rbp[p].key \in st.inserted THEN AppendOrphans(st, rbp, p + 1)
    ELSE AppendOrphans(AppendReplies(st, rbp, p, 1), rbp, p + 1)

MergePlan(messages, rbp) ==
    IF rbp = <<>> THEN [i \in 1..Len(messages) |-> [src |-> "top", p |-> 0, j |-> i]]
    ELSE AppendOrphans(
           WalkTop([plan |-> <<>>, ids |-> {}, inserted |-> {}], messages, rbp,
                   suppressedBaseIndices(messages, rbp), 1),
           rbp, 1).plan

SlotMsg(messages, rbp, slot) ==
    IF slot.src = "top" THEN messages[slot.j] ELSE rbp[slot.p].val[slot.j]

mergeRepliesIntoMessages(messages, rbp) ==
    LET plan == MergePlan(messages, rbp)
    IN  [i \in 1..Len(plan) |-> SlotMsg(messages, rbp, plan[i])]

\* ========================================================================
\* The scrape session: collectCurrentVisible over the items the passes show,
\* hydration and the Finalizer of one autoScrollAggregate run.  Which items
\* a pass shows and when the scroll loop leaves is decided by the surface
\* and the Driver (modelled below); here the items arrive in any order and
\* the collection may end after any of them.
\* ========================================================================
VARIABLES
    pc,             \* where autoScrollAggregate stands
    surface,        \* what the items of the list can show
    agg,            \* the aggregation map
    orderCtx,       \* the rolling SessionContext
    opts,           \* includeSystem and the time window of the request
    pending,        \* hydration: tasks of the running round
    nextPending,    \* hydration: tasks kept for the next round
    attempts,       \* hydration: rounds completed
    filtered,       \* the entries handed to the bucketing loop
    finalMessages,  \* the list before deduplication
    out,            \* the list autoScrollAggregate returns
    err,            \* the error the session ended with ("" if none)
    lastOp,         \* the step taken last
    processed,      \* reply collector: parent ids already handled
    repliesByParent,\* reply collector: parent id -> replies, a Map
    response        \* the messages of the answer in team mode

\* The scroll loop of autoScrollAggregate (title.ts lines 199-211, 272-423)
VARIABLES
    passes,             \* passes started, counted up to MaxPasses
    stagnantPasses,
    loadingNoProgress,
    prevHeight,         \* -1 before the first measurement
    lastCount,          \* -1 before the first measurement
    lastOldestId,       \* "" for null
    lastAggSize,
    topReached,
    tuning,             \* maxStagnant, maxStagnantAtTop, loadingStallPasses
    stuck,              \* the list has stopped changing with its loader shown
    progress,           \* the last SCRAPE_PROGRESS payload
    bottomPasses        \* bottom passes performed after the loop (lines 429-433)

\* The reply collector and its worker (part_001 lines 1521-1785)
VARIABLES
    jobs,           \* the parents maybeCollect was called for, in call order
    jobState,       \* per job: "queued", "running", "resolved", "rejected"
    step,           \* where the running job stands
    paneReplies,    \* the replies local of collectRepliesForThread
    failure,        \* per job: what went wrong in it ("" if nothing)
    scraped,        \* per job: what the nested session had returned
    threadCalls,    \* the parents collectRepliesForThread was invoked for
    tries,          \* attempts the last call of openRepliesForItem has made
    openMode,       \* per job: what openRepliesForItem returned ("" before)
    repliesRunway   \* the thread view shown: "" none, else whose thread

\* mergeRepliesIntoMessages applied to one input
VARIABLES
    mergeStage, topLevel, threadReplies, mergePlan, mergeOut

\* The deduplication step applied twice to one list
VARIABLES
    dedupStage, dedupInput, dedupPrev, dedupList

\* One call of a bounded wait (part_001 lines 694-702, 799-826, 887-913)
VARIABLES
    waitFn,         \* the function called
    waitTimeout,    \* its timeoutMs
    waitStage,      \* "idle", "click", "poll", "settle", "returned"
    waitNever,      \* the awaited condition never becomes true
    elapsed,        \* Date.now() - start of the polling loop, in ms
    total,          \* time since the call, in ms
    waitResult      \* what the call returned

\* The merge of a hydration round applied to one pair of messages
VARIABLES
    hmStage, hmExisting, hmFresh, hmMerged

\* The background worker's export bookkeeping (background.ts lines 54-71,
\* 156-385)
VARIABLES
    activeExports,  \* the Map tabId -> ActiveExportInfo
    requests        \* the start-export requests received, in arrival order

sessionVars == <<pc, surface, agg, orderCtx, opts, pending, nextPending,
                 attempts, filtered, finalMessages, out, err, lastOp,
                 processed, repliesByParent, response>>
driverVars == <<passes, stagnantPasses, loadingNoProgress, prevHeight, lastCount,
                lastOldestId, lastAggSize, topReached, tuning, stuck, progress,
                bottomPasses>>
collectorVars == <<jobs, jobState, step, paneReplies, failure, scraped, threadCalls,
                   tries, openMode, repliesRunway>>
mergeVars == <<mergeStage, topLevel, threadReplies, mergePlan, mergeOut>>
dedupVars == <<dedupStage, dedupInput, dedupPrev, dedupList>>
waitVars == <<waitFn, waitTimeout, waitStage, waitNever, elapsed, total, waitResult>>
hmVars == <<hmStage, hmExisting, hmFresh, hmMerged>>
bgVars == <<activeExports, requests>>
vars == <<sessionVars, driverVars, collectorVars, mergeVars, dedupVars, waitVars,
          hmVars, bgVars>>

\* The state of a part that is not running.
DriverIdle ==
    /\ passes = 0 /\ stagnantPasses = 0 /\ loadingNoProgress = 0
    /\ prevHeight = -1 /\ lastCount = -1 /\ lastOldestId = "" /\ lastAggSize = 0
    /\ topReached = FALSE /\ tuning = <<>> /\ stuck = FALSE /\ progress = Null
    /\ bottomPasses = 0
CollectorIdle ==
    /\ jobs = <<>> /\ jobState = <<>> /\ step = "idle" /\ paneReplies = <<>>
    /\ failure = <<>> /\ scraped = <<>> /\ threadCalls = <<>>
    /\ tries = 0 /\ openMode = <<>> /\ repliesRunway = ""
MergeIdle ==
    /\ mergeStage = "idle" /\ topLevel = <<>> /\ threadReplies = <<>>
    /\ mergePlan = <<>> /\ mergeOut = <<>>
DedupIdle ==
    /\ dedupStage = 0 /\ dedupInput = <<>> /\ dedupPrev = <<>> /\ dedupList = <<>>
WaitIdle ==
    /\ waitFn = "" /\ waitTimeout = 0 /\ waitStage = "idle" /\ waitNever = FALSE /\ elapsed = 0
    /\ total = 0 /\ waitResult = ""
HmIdle ==
    /\ hmStage = "idle" /\ hmExisting = <<>> /\ hmFresh = <<>> /\ hmMerged = <<>>
BgIdle ==
    /\ activeExports = <<>> /\ requests = <<>>

Al == <<"a", "l">>
Hi == <<"h", "i">>
Joined == <<"j">>
TsStrings == {EmptyStr, <<"x">>} \cup {TimeToStr(t) : t \in Times}

\* A chat whose bodies are rendered: two messages around a control item,
\* every timestamp shape, no reactions or previews left to load.  scroller
\* is whether getScroller() finds the scroll container.
RenderedSurface ==
    [messageItems |-> {"m1", "m2"}, controlItems |-> {"s1"},
     tsStrings |-> TsStrings, midTimes |-> {Null, Some(1)},
     texts |-> {Hi}, controlTexts |-> {SystemWord, Joined},
     media |-> FALSE, team |-> FALSE, threadItems |-> {}, scroller |-> TRUE]

\* A chat that is still loading: bodies may show the placeholder, reactions
\* and previews may be incomplete.
LoadingSurface ==
    [messageItems |-> {"m1", "m2"}, controlItems |-> {},
     tsStrings |-> {EmptyStr, TimeToStr(2)}, midTimes |-> {Null},
     texts |-> {Hi, PlaceholderText}, controlTexts |-> {},
     media |-> TRUE, team |-> FALSE, threadItems |-> {}, scroller |-> TRUE]

\* A channel exported with replies (target 'team', includeReplies): two
\* posts, the first with a replies button.
ChannelSurface ==
    [messageItems |-> {"m1", "m2"}, controlItems |-> {},
     tsStrings |-> {TimeToStr(1), TimeToStr(2)}, midTimes |-> {Null},
     texts |-> {Hi}, controlTexts |-> {},
     media |-> FALSE, team |-> TRUE, threadItems |-> {"m1"}, scroller |-> TRUE]

\* A chat whose items carry no data-mid and no id attribute: a message
\* (the case extractOne warns about at line 1396) and a control item.
BareItems == {"n1", "n2"}
BareSurface ==
    [messageItems |-> {"n1"}, controlItems |-> {"n2"},
     tsStrings |-> {EmptyStr, TimeToStr(2)}, midTimes |-> {Null},
     texts |-> {Hi}, controlTexts |-> {Joined},
     media |-> FALSE, team |-> FALSE, threadItems |-> {}, scroller |-> TRUE]
\* The data-mid attribute the selectors find in an item ("" for none)
DataMid(item) == IF item \in BareItems THEN "" ELSE item

\* What collectRepliesForThread can return for a parent: nothing (the pane
\* did not open, the scrape threw, the thread is empty) or the replies of the
\* nested session (lines 1521-1698).
Reply(id, ts) == MkMsg(id, id, Al, ts, Hi, FALSE)
ThreadOutcomes(parentId) ==
    {<<>>, <<Reply("r1", TimeToStr(3))>>,
     <<Reply("r1", TimeToStr(1)), Reply("r2", TimeToStr(3))>>}

\* What extractOne can find in a message item.
MessageRaws(item) ==
    {[shape |-> "message", mid |-> DataMid(item), chainId |-> "", author |-> Al,
      ts |-> ts, midMs |-> midMs, text |-> text, parsedTs |-> Null] :
        ts \in surface.tsStrings, midMs \in surface.midTimes,
        text \in surface.texts}
    \cup {[shape |-> "skip", mid |-> DataMid(item), chainId |-> "", author |-> EmptyStr,
           ts |-> EmptyStr, midMs |-> Null, text |-> EmptyStr, parsedTs |-> Null]}

\* What extractOne can find in a control item: a control message or a pure
\* date divider.
ControlRaws(item) ==
    {[shape |-> shape, mid |-> DataMid(item), chainId |-> "", author |-> EmptyStr,
      ts |-> EmptyStr, midMs |-> Null, text |-> text, parsedTs |-> parsedTs] :
        shape \in {"control", "divider"}, text \in surface.controlTexts,
        parsedTs \in {Null} \cup {Some(t) : t \in Times}}

RawsFor(item) ==
    IF item \in surface.messageItems THEN MessageRaws(item) ELSE ControlRaws(item)

\* defaultGetItemId(item, index) (lines 162-174): the data-mid the item
\* shows, else `node-${index}`; the item's name stands for its index.
getItemId(item) == OrId(DataMid(item), "node-" \o item)

TimeWindows == {[startLimit |-> Null, endLimit |-> Null],
                [startLimit |-> Some(2), endLimit |-> Some(3)]}

SessionInit ==
    /\ pc = "collect"
    /\ surface \in {RenderedSurface, LoadingSurface, ChannelSurface, BareSurface}
    /\ agg = <<>>
    /\ orderCtx = InitOrderCtx
    /\ opts \in {[includeSystem |-> s, startLimit |-> w.startLimit, endLimit |-> w.endLimit] :
                    s \in BOOLEAN, w \in TimeWindows}
    /\ pending = <<>>
    /\ nextPending = <<>>
    /\ attempts = 0
    /\ filtered = <<>>
    /\ finalMessages = <<>>
    /\ out = <<>>
    /\ err = ""
    /\ lastOp = "init"
    /\ processed = {}
    /\ repliesByParent = <<>>
    /\ response = <<>>
    /\ DriverIdle /\ CollectorIdle /\ MergeIdle /\ DedupIdle /\ WaitIdle /\ HmIdle /\ BgIdle

\* maybeCollect for an extracted message (lines 1727-1781), run to its end
\* inside the await of extractWithReplies (lines 1961-1975).  The parent id
\* is the item's mid (lines 1745-1748).
MaybeCollect(item, result) ==
    IF /\ surface.team
       /\ result # Null
       /\ Val(result).kind = "message"
       /\ ~Val(result).message.system
       /\ item \in surface.threadItems
       /\ item \notin processed
    THEN /\ processed' = processed \cup {item}
         /\ \E replies \in ThreadOutcomes(item) :
              repliesByParent' = IF replies # <<>>
                                 THEN AggSet(repliesByParent, item, replies)
                                 ELSE repliesByParent
    ELSE UNCHANGED <<processed, repliesByParent>>

\* The extractions of messages and control items a session has made: each
\* advances seq or systemCursor.  A session is followed for MaxExtractions
\* of them.
MaxExtractions == 4
Extractions(ctx) == ctx.seq + (ctx.systemCursor - SystemCursorStart)

\* One iteration of the for loop of collectCurrentVisible (lines 549-577)
\* on an item some pass shows.
CollectItem ==
    /\ pc = "collect"
    /\ \E item \in surface.messageItems \cup surface.controlItems :
         IF AggHas(agg, getItemId(item))
         THEN /\ lastOp' = "skip"
              /\ UNCHANGED <<agg, orderCtx, processed, repliesByParent>>
         ELSE \E raw \in RawsFor(item) :
                LET r == extractOne(raw, opts.includeSystem, orderCtx)
                IN  /\ Extractions(orderCtx) < MaxExtractions
                    /\ agg' = AggAfterResult(agg, r.result)
                    /\ orderCtx' = CtxAfterResult(r.ctx, r.result)
                    /\ lastOp' = IF r.result = Null THEN "discard"
                                 ELSE IF Val(r.result).kind = "day-divider"
                                 THEN "divider" ELSE "store"
                    /\ MaybeCollect(item, r.result)
    /\ UNCHANGED <<pc, surface, opts, pending, nextPending, attempts,
                   filtered, finalMessages, out, err, response>>
    /\ UNCHANGED <<driverVars, collectorVars, mergeVars, dedupVars, waitVars, hmVars, bgVars>>

\* extractOne throws for an item: the await at line 554 is inside no try
\* block, so the rejection leaves collectCurrentVisible and
\* autoScrollAggregate and reaches the catch of the SCRAPE_TEAMS handler
\* (part_001 lines 2041-2046), which answers {error}.
ExtractThrows ==
    /\ pc = "collect"
    /\ \E item \in surface.messageItems \cup surface.controlItems :
         ~AggHas(agg, getItemId(item))
    /\ pc' = "error"
    /\ err' = "extract"
    /\ lastOp' = "throw"
    /\ UNCHANGED <<surface, agg, orderCtx, opts, pending, nextPending,
                   attempts, filtered, finalMessages, out,
                   processed, repliesByParent, response>>
    /\ UNCHANGED <<driverVars, collectorVars, mergeVars, dedupVars, waitVars, hmVars, bgVars>>

\* The ids of the stored entries hydration may queue: entries with a
\* non-system message (line 1002) that need hydration (lines 972-996):
\* placeholder text, or reactions or previews the surface has not loaded.
MayNeedHydration(m) == isPlaceholderText(m.text) \/ surface.media
HydrationCandidates(a) ==
    SelectSeq([i \in 1..Len(a) |-> a[i].key],
              LAMBDA k : /\ ~AggGet(a, k).message.system
                         /\ MayNeedHydration(AggGet(a, k).message))

\* The last pass has returned (line 433); hydrateSparseMessages scans the
\* store (lines 970-1009).  An entry is queued if its item is found and it
\* needs hydration; both depend on the surface.
HydrateScan ==
    /\ pc \in {"collect", "collected"}
    /\ \E chosen \in SUBSET AggKeys(agg) :
         LET p == SelectSeq(HydrationCandidates(agg), LAMBDA k : k \in chosen)
         IN  /\ pending' = p
             /\ pc' = IF p = <<>> THEN "finalize" ELSE "hydrate"
    /\ nextPending' = <<>>
    /\ attempts' = 0
    /\ lastOp' = "scan"
    /\ UNCHANGED <<surface, agg, orderCtx, opts, filtered, finalMessages, out, err,
                   processed, repliesByParent, response>>
    /\ UNCHANGED <<driverVars, collectorVars, mergeVars, dedupVars, waitVars, hmVars, bgVars>>

\* The bookkeeping after one task, and after the last task of a round
\* (lines 1104-1105 and the loop condition of line 1012).
AfterTask(np) ==
    IF Tail(pending) # <<>>
    THEN /\ pending' = Tail(pending)
         /\ nextPending' = np
         /\ attempts' = attempts
         /\ pc' = "hydrate"
    ELSE /\ pending' = np
         /\ nextPending' = <<>>
         /\ attempts' = attempts + 1
         /\ pc' = IF np # <<>> /\ RoundsLeft(attempts + 1)
                  THEN "hydrate" ELSE "finalize"

\* One task of a repair round (lines 1016-1102).
HydrateTask ==
    /\ pc = "hydrate"
    /\ LET id == Head(pending)
           existing == AggGet(agg, id)
       IN  \E raw \in MessageRaws(id) :
             LET r == extractOne(raw, opts.includeSystem, TempOrderCtx(existing))
             IN  IF r.result = Null
                 THEN /\ AfterTask(Append(nextPending, id))
                      /\ lastOp' = "hydrate-none"
                      /\ UNCHANGED agg
                 ELSE LET e == MergeEntry(existing, Val(r.result), id)
                      IN  /\ agg' = AggSet(agg, HydrationKey(id, e.message), e)
                          /\ lastOp' = "hydrate-merge"
                          /\ \E needs \in BOOLEAN :
                               /\ needs => MayNeedHydration(e.message)
                               /\ isPlaceholderText(e.message.text) => needs
                               /\ AfterTask(IF needs THEN Append(nextPending, id)
                                            ELSE nextPending)
    /\ UNCHANGED <<surface, orderCtx, opts, filtered, finalMessages, out, err,
                   processed, repliesByParent, response>>
    /\ UNCHANGED <<driverVars, collectorVars, mergeVars, dedupVars, waitVars, hmVars, bgVars>>

\* The store after the anchoring walk: the walk assigns to the entry objects
\* the map holds.
AggAfterAnchor(a) ==
    LET perm == SortIdx([i \in 1..Len(a) |-> a[i].val.orderKey10], Zeros(Len(a)))
        anchored == AnchoredEntries(a)
    IN  [i \in 1..Len(a) |->
           [key |-> a[i].key,
            val |-> anchored[CHOOSE j \in 1..Len(perm) : perm[j] = i]]]

\* lines 437-535: sort, anchor, filter, bucket, deduplicate, return.
Finalize ==
    /\ pc = "finalize"
    /\ LET f == FilteredEntries(agg, opts.startLimit, opts.endLimit)
           fm == BucketAndEmit(f, opts.includeSystem)
       IN  /\ filtered' = f
           /\ finalMessages' = fm
           /\ out' = Dedup(fm)
    /\ agg' = AggAfterAnchor(agg)
    /\ pc' = "done"
    /\ lastOp' = "finalize"
    /\ UNCHANGED <<surface, orderCtx, opts, pending, nextPending, attempts, err,
                   processed, repliesByParent, response>>
    /\ UNCHANGED <<driverVars, collectorVars, mergeVars, dedupVars, waitVars, hmVars, bgVars>>

\* Team mode with replies: the list autoScrollAggregate returned is merged
\* with the collected threads (part_001 lines 1999-2001).
MergeBack ==
    /\ pc = "done"
    /\ surface.team
    /\ response' = mergeRepliesIntoMessages(out, repliesByParent)
    /\ pc' = "merged"
    /\ lastOp' = "merge"
    /\ UNCHANGED <<surface, agg, orderCtx, opts, pending, nextPending, attempts,
                   filtered, finalMessages, out, err, processed, repliesByParent>>
    /\ UNCHANGED <<driverVars, collectorVars, mergeVars, dedupVars, waitVars, hmVars, bgVars>>

SessionNext ==
    \/ CollectItem
    \/ ExtractThrows
    \/ HydrateScan
    \/ HydrateTask
    \/ Finalize
    \/ MergeBack

Init == SessionInit
Next == SessionNext
Spec == Init /\ [][Next]_vars

\* ------------------------------------------------------------------------
\* Properties of the scrape session
\* ------------------------------------------------------------------------
\* The stored entry a returned message came from.
EntryOf(m) == CHOOSE e \in {filtered[i] : i \in 1..Len(filtered)} : e.message = m
HasEntry(m) == \E i \in 1..Len(filtered) : filtered[i].message = m
Returned(m) == \E i \in 1..Len(out) : out[i] = m
StoredEntries == {agg[i].val : i \in 1..Len(agg)}

\* C1: when the Finalizer has returned, every stored entry with no
\* resolvable time (no tsMs, no anchor, unparsable timestamp) that the system
\* filters do not remove is in the returned list, after every dated record.
C1_UndatedEntriesRetained ==
    pc = "done" =>
        \A e \in StoredEntries :
            (EffectiveTs(e) = Null /\ ~SystemSuppressed(e.message, opts.includeSystem))
                => /\ Returned(e.message)
                   /\ \A i, j \in 1..Len(out) :
                        (out[i] = e.message /\ HasEntry(out[j])
                            /\ EffectiveTs(EntryOf(out[j])) # Null) => j < i

\* C2: no step of the session removes a key of the store, and a hydration
\* step leaves the key set as it is: it writes only under a key that is
\* already present.
C2_KeysOnlyGrow ==
    [][/\ AggKeys(agg) \subseteq AggKeys(agg')
       /\ pc = "hydrate" => AggKeys(agg') = AggKeys(agg)]_vars

\* A hydration round has just written a merged entry back.
C2_Witness ==
    /\ lastOp = "hydrate-merge"
    /\ Len(agg) = 2
    /\ \E i \in 1..Len(agg) : agg[i].val.message.threadId = ""

\* The returned list is in time order: of two returned records with
\* resolvable effective times, the later one does not come first.
OutOrdered ==
    \A i, j \in 1..Len(out) :
        (i < j /\ HasEntry(out[i]) /\ HasEntry(out[j])
           /\ EffectiveTs(EntryOf(out[i])) # Null
           /\ EffectiveTs(EntryOf(out[j])) # Null)
        => Val(EffectiveTs(EntryOf(out[i]))) <= Val(EffectiveTs(EntryOf(out[j])))

\* The merged list is in time order, replies included.
ResponseOrdered ==
    \A i, j \in 1..Len(response) :
        (i < j /\ parseTimeStamp(response[i].timestamp) # Null
               /\ parseTimeStamp(response[j].timestamp) # Null)
        => Val(parseTimeStamp(response[i].timestamp))
             <= Val(parseTimeStamp(response[j].timestamp))

\* The top-level records the merge retains keep their relative order.
TopLevelOrderKept ==
    LET plan == MergePlan(out, repliesByParent)
    IN  \A i, j \in 1..Len(plan) :
            (i < j /\ plan[i].src = "top" /\ plan[j].src = "top")
                => plan[i].j < plan[j].j

\* C3 as stated: in the list autoScrollAggregate returns and in the list
\* after thread merge-back, the record with the earlier effective time
\* comes first.
C3_FinalOutputOrdered ==
    /\ pc \in {"done", "merged"} => OutOrdered
    /\ pc = "merged" => ResponseOrdered

\* C3 amended: the list autoScrollAggregate returns is in time order; the
\* merge-back keeps the retained top-level records in that order and places
\* each thread's replies after its parent whatever their times.
C3_ReturnedListOrdered ==
    /\ pc \in {"done", "merged"} => OutOrdered
    /\ pc = "merged" => TopLevelOrderKept

\* A merged channel export: two top-level records of different times
\* discovered latest first, and a thread merged in.
C3_Witness ==
    /\ pc = "merged"
    /\ Len(out) >= 2
    /\ Len(response) > Len(out)
    /\ Len(agg) = 2
    /\ Val(agg[1].val.tsMs) > Val(agg[2].val.tsMs)

\* C4: the bucketing loop drops nothing: the list it builds has as many
\* records that are not day dividers as there are entries that survive the
\* window filter and the system filters.
C4_BucketingDropsNothing ==
    pc = "done" =>
        Len(SelectSeq(finalMessages, LAMBDA m : ~IsDayDividerMsg(m)))
            = Len(Survivors(filtered, opts.includeSystem))

\* A time within the requested window [startLimit, endLimit); a missing
\* limit does not bound.
WithinLimits(t) ==
    /\ opts.startLimit = Null \/ Val(t) >= Val(opts.startLimit)
    /\ opts.endLimit = Null \/ Val(t) < Val(opts.endLimit)
KeptByWindow(e) == \E k \in 1..Len(filtered) : filtered[k] = e

\* C15: once the Finalizer has run, a stored entry is among the entries kept
\* by the window step iff its effective time is unresolvable or lies in
\* [startLimit, endLimit); and no returned record has a resolvable time,
\* whether the effective time of its entry or the time its own timestamp
\* parses to, outside the window.
C15_WindowKeepsUndatedAndInRange ==
    pc \in {"done", "merged"} =>
        /\ \A i \in 1..Len(agg) :
              LET e == agg[i].val
                  t == EffectiveTs(e)
              IN  KeptByWindow(e) <=> (t = Null \/ WithinLimits(t))
        /\ \A k \in 1..Len(out) :
              /\ HasEntry(out[k]) =>
                    LET t == EffectiveTs(EntryOf(out[k]))
                    IN  t = Null \/ WithinLimits(t)
              /\ LET t == parseTimeStamp(out[k].timestamp)
                 IN  t = Null \/ WithinLimits(t)

\* A window was requested; an undated entry passed it, an entry dated at
\* the end limit did not, and a record inside the window was returned.
C15_Witness ==
    /\ pc = "done"
    /\ opts.endLimit # Null
    /\ \E i \in 1..Len(agg) :
         EffectiveTs(agg[i].val) = Null /\ KeptByWindow(agg[i].val)
    /\ \E i \in 1..Len(agg) :
         EffectiveTs(agg[i].val) = opts.endLimit /\ ~KeptByWindow(agg[i].val)
    /\ out # <<>>

C9_ExtractFailureSkipsItem ==
    [][lastOp' = "throw" => (pc' = "collect" /\ agg' = agg /\ err' = "")]_vars

\* ========================================================================
\* The deduplication step of the Finalizer on its own: it is applied to a
\* list, then to its own result.
\* ========================================================================
MaxDedupLen == 3

\* Records as the bucketing loop emits them: ids differ, thread roots,
\* authors and timestamps may coincide, texts may differ in white space only.
HiPadded == <<"h", "i", " ">>
DedupRecord(n, threadId, text) ==
    MkMsg("m" \o ToString(n), threadId, Al, TimeToStr(1), text, FALSE)
DedupLists ==
    UNION {{[i \in 1..n |-> DedupRecord(i, t[i], x[i])] :
                t \in [1..n -> {"", "c1"}], x \in [1..n -> {Hi, HiPadded}]} :
           n \in 0..MaxDedupLen}

DedupInit ==
    /\ dedupStage = 0
    /\ dedupInput \in DedupLists
    /\ dedupList = dedupInput
    /\ dedupPrev = <<>>
    /\ pc = "idle" /\ surface = <<>> /\ agg = <<>> /\ orderCtx = InitOrderCtx
    /\ opts = <<>> /\ pending = <<>> /\ nextPending = <<>> /\ attempts = 0
    /\ filtered = <<>> /\ finalMessages = <<>> /\ out = <<>> /\ err = ""
    /\ lastOp = "init" /\ processed = {} /\ repliesByParent = <<>> /\ response = <<>>
    /\ DriverIdle /\ CollectorIdle /\ MergeIdle /\ WaitIdle /\ HmIdle /\ BgIdle

\* lines 512-535 run on the current list
DedupStep ==
    /\ dedupStage < 2
    /\ dedupPrev' = dedupList
    /\ dedupList' = Dedup(dedupList)
    /\ dedupStage' = dedupStage + 1
    /\ UNCHANGED <<dedupInput, sessionVars, driverVars, collectorVars, mergeVars,
                   waitVars, hmVars, bgVars>>

DedupNext == DedupStep
SpecDedup == DedupInit /\ [][DedupNext]_vars

\* C7: the deduplication step is idempotent: applied to its own result it
\* returns that result unchanged.
C7_DedupIdempotent == dedupStage = 2 => dedupList = dedupPrev

\* A list with three clones of one record has been deduplicated twice.
C7_Witness ==
    /\ dedupStage = 2
    /\ Len(dedupInput) = 3
    /\ Len(dedupList) = 1

\* ========================================================================
\* mergeRepliesIntoMessages on its own: a top-level stream and a map of
\* collected threads are merged once.
\* ========================================================================
MaxTopLevel == 2
MaxThreads == 2
MaxReplies == 2

AlUpper == <<"A", "l">>
Bo == <<"b", "o">>

\* The top-level stream as autoScrollAggregate returns it: ids differ (they
\* were keys of the store), the author may be written in either case.
TopRecord(n, author) ==
    MkMsg("p" \o ToString(n), "p" \o ToString(n), author, TimeToStr(1), Hi, FALSE)
TopLevelStreams ==
    UNION {{[i \in 1..n |-> TopRecord(i, a[i])] : a \in [1..n -> {Al, AlUpper}]} :
           n \in 0..MaxTopLevel}

\* A thread as collectRepliesForThread returns it: not empty, ids differ and
\* none is the parent's (lines 1687-1693).  A reply may repeat a top-level
\* record, by id or by author, time and text.
ReplyIds == <<"r1", "r2", "p2">>
ReplyRecord(n, author) == MkMsg(ReplyIds[n], ReplyIds[n], author, TimeToStr(1), Hi, FALSE)
ReplyIndexes(parentId) ==
    {f \in UNION {[1..n -> 1..Len(ReplyIds)] : n \in 1..MaxReplies} :
        /\ \A i, j \in 1..Len(f) : i < j => f[i] < f[j]
        /\ \A i \in 1..Len(f) : ReplyIds[f[i]] # parentId}
ReplyLists(parentId) ==
    {[i \in 1..Len(ix) |-> ReplyRecord(ix[i], IF i = 1 THEN first ELSE Bo)] :
        first \in {Al, Bo}, ix \in ReplyIndexes(parentId)}

\* The map: threads of parents of the stream and of a parent the stream
\* does not show, in the order the parents were handled.
ParentKeys == <<"p1", "p2", "x">>
ThreadMaps ==
    {SelectSeq([k \in 1..Len(ParentKeys) |-> [key |-> ParentKeys[k], val |-> f[k]]],
               LAMBDA e : e.val # <<>>) :
        f \in {g \in [1..Len(ParentKeys) ->
                        {<<>>} \cup UNION {ReplyLists(ParentKeys[k]) : k \in 1..Len(ParentKeys)}] :
                  /\ \A k \in 1..Len(ParentKeys) :
                        g[k] = <<>> \/ g[k] \in ReplyLists(ParentKeys[k])
                  /\ Cardinality({k \in 1..Len(ParentKeys) : g[k] # <<>>}) <= MaxThreads}}

MergeInit ==
    /\ mergeStage = "input"
    /\ topLevel \in TopLevelStreams
    /\ threadReplies \in ThreadMaps
    /\ mergePlan = <<>>
    /\ mergeOut = <<>>
    /\ pc = "idle" /\ surface = <<>> /\ agg = <<>> /\ orderCtx = InitOrderCtx
    /\ opts = <<>> /\ pending = <<>> /\ nextPending = <<>> /\ attempts = 0
    /\ filtered = <<>> /\ finalMessages = <<>> /\ out = <<>> /\ err = ""
    /\ lastOp = "init" /\ processed = {} /\ repliesByParent = <<>> /\ response = <<>>
    /\ DriverIdle /\ CollectorIdle /\ DedupIdle /\ WaitIdle /\ HmIdle /\ BgIdle

\* part_001 lines 1787-1904
MergeStep ==
    /\ mergeStage = "input"
    /\ mergePlan' = MergePlan(topLevel, threadReplies)
    /\ mergeOut' = mergeRepliesIntoMessages(topLevel, threadReplies)
    /\ mergeStage' = "merged"
    /\ UNCHANGED <<topLevel, threadReplies, sessionVars, driverVars, collectorVars,
                   dedupVars, waitVars, hmVars, bgVars>>

MergeNext == MergeStep
SpecMerge == MergeInit /\ [][MergeNext]_vars

\* The thread of a top-level record: the map entry under its id (0 if none).
ThreadOf(m) ==
    IF \E p \in 1..Len(threadReplies) : threadReplies[p].key = m.id
    THEN CHOOSE p \in 1..Len(threadReplies) : threadReplies[p].key = m.id
    ELSE 0
TopSlot(i) == [src |-> "top", p |-> 0, j |-> i]
ReplySlot(p, j) == [src |-> "reply", p |-> p, j |-> j]
SlotCount(slot) == Cardinality({k \in 1..Len(mergePlan) : mergePlan[k] = slot})

\* Record i is in the merged list, followed at once by the replies of
\* thread p in their order, and each of those replies is there once.
FollowedByThread(i, p) ==
    LET n == Len(threadReplies[p].val)
    IN  /\ \E k \in 1..Len(mergePlan) :
              /\ mergePlan[k] = TopSlot(i)
              /\ k + n <= Len(mergePlan)
              /\ \A j \in 1..n : mergePlan[k + j] = ReplySlot(p, j)
        /\ \A j \in 1..n : SlotCount(ReplySlot(p, j)) = 1

\* The ids the merged list holds up to and including record i.
EmittedThrough(i) ==
    LET k == CHOOSE k \in 1..Len(mergePlan) : mergePlan[k] = TopSlot(i)
    IN  {mergeOut[m].id : m \in 1..k}

\* C5 as stated: every parent of the top-level stream whose thread yielded
\* replies with pairwise distinct ids is in the merged list, followed at once
\* by exactly those replies, each once.
C5_ParentFollowedByReplies ==
    mergeStage = "merged" =>
        \A i \in 1..Len(topLevel) :
            ThreadOf(topLevel[i]) # 0 => FollowedByThread(i, ThreadOf(topLevel[i]))

\* C5 amended: the same for a parent that is not suppressed as the logical
\* duplicate of a reply and whose replies carry no id the merged list already
\* holds when the parent is emitted.
C5_RetainedParentFollowedByReplies ==
    mergeStage = "merged" =>
        \A i \in 1..Len(topLevel) :
            LET p == ThreadOf(topLevel[i])
            IN  (/\ p # 0
                 /\ logicalKey(topLevel[i]) \notin ReplyKeys(threadReplies)
                 /\ SlotCount(TopSlot(i)) = 1
                 /\ \A j \in 1..Len(threadReplies[p].val) :
                        threadReplies[p].val[j].id \notin EmittedThrough(i))
                => FollowedByThread(i, p)

\* The second parent of the stream has been merged with its two replies.
C5_Witness ==
    /\ mergeStage = "merged"
    /\ Len(topLevel) = 2
    /\ ThreadOf(topLevel[2]) # 0
    /\ Len(threadReplies[ThreadOf(topLevel[2])].val) = 2
    /\ logicalKey(topLevel[2]) \notin ReplyKeys(threadReplies)
    /\ FollowedByThread(2, ThreadOf(topLevel[2]))
    /\ Len(mergeOut) = 4

\* C6: a top-level record whose logical key (normalized author, timestamp
\* and first 280 characters of text) is the logical key of a collected reply
\* is not in the top-level part of the merged list.
C6_LogicalDuplicatesSuppressed ==
    mergeStage = "merged" =>
        \A i \in 1..Len(topLevel) :
            logicalKey(topLevel[i]) \in ReplyKeys(threadReplies)
                => SlotCount(TopSlot(i)) = 0

\* A top-level record whose author differs from a reply's in case only has
\* been suppressed.
C6_Witness ==
    /\ mergeStage = "merged"
    /\ \E i \in 1..Len(topLevel) :
         /\ topLevel[i].author = AlUpper
         /\ logicalKey(topLevel[i]) \in ReplyKeys(threadReplies)
         /\ SlotCount(TopSlot(i)) = 0
    /\ Len(mergeOut) >= 1

\* ========================================================================
\* The merge of a hydration round (part_001 lines 1060-1082) applied to one
\* stored message and one re-extraction of its item.
\* ========================================================================
Liked == <<"like">>

\* Stored messages hydration queues: non-system (line 1002), with the id
\* extractOne gave them (never empty, line 1494).
ExistingMessages ==
    {[id |-> "m1", threadId |-> "m1", author |-> a, timestamp |-> t, text |-> x,
      system |-> FALSE, edited |-> e, reactions |-> r, attachments |-> c,
      tables |-> c] :
        a \in {EmptyStr, Al}, t \in {EmptyStr, TimeToStr(1)},
        x \in {PlaceholderText, Hi}, e \in BOOLEAN,
        r \in {Null, Some(<<Liked>>)}, c \in {Null, Some(<<Hi>>)}}

\* What a re-extraction can return: any field empty or absent, collections
\* present but empty.
FreshMessages ==
    {[id |-> i, threadId |-> i, author |-> a, timestamp |-> t, text |-> x,
      system |-> y, edited |-> e, reactions |-> r, attachments |-> c,
      tables |-> c] :
        i \in {"m1", "m9"}, a \in {EmptyStr, Bo}, t \in {EmptyStr, TimeToStr(2)},
        x \in {EmptyStr, Joined}, y \in BOOLEAN, e \in BOOLEAN,
        r \in {Null, Some(<<>>)}, c \in {Null, Some(<<>>)}}

HmInit ==
    /\ hmStage = "input"
    /\ hmExisting \in ExistingMessages
    /\ hmFresh \in FreshMessages
    /\ hmMerged = <<>>
    /\ pc = "idle" /\ surface = <<>> /\ agg = <<>> /\ orderCtx = InitOrderCtx
    /\ opts = <<>> /\ pending = <<>> /\ nextPending = <<>> /\ attempts = 0
    /\ filtered = <<>> /\ finalMessages = <<>> /\ out = <<>> /\ err = ""
    /\ lastOp = "init" /\ processed = {} /\ repliesByParent = <<>> /\ response = <<>>
    /\ DriverIdle /\ CollectorIdle /\ MergeIdle /\ DedupIdle /\ WaitIdle /\ BgIdle

\* lines 1060-1082; the map key of a stored message is its id
HmStep ==
    /\ hmStage = "input"
    /\ hmMerged' = MergeMessage(hmExisting, hmFresh, hmExisting.id)
    /\ hmStage' = "merged"
    /\ UNCHANGED <<hmExisting, hmFresh, sessionVars, driverVars, collectorVars,
                   mergeVars, dedupVars, waitVars, bgVars>>

HmNext == HmStep
SpecHydrationMerge == HmInit /\ [][HmNext]_vars

\* x if it is non-empty, else y
FreshOrOld(x, y) == IF Len(x) > 0 THEN x ELSE y

\* C18: the merged message takes author, timestamp and text from the fresh
\* extraction where they are non-empty and from the old message otherwise;
\* edited and system are the disjunction of old and fresh; reactions,
\* attachments and tables are the fresh collection if there is one (even an
\* empty one), else the old one; the id is the old message's id.
C18_HydrationMergeRule ==
    hmStage = "merged" =>
        /\ hmMerged.id = hmExisting.id
        /\ hmMerged.author = FreshOrOld(hmFresh.author, hmExisting.author)
        /\ hmMerged.timestamp = FreshOrOld(hmFresh.timestamp, hmExisting.timestamp)
        /\ hmMerged.text = FreshOrOld(hmFresh.text, hmExisting.text)
        /\ hmMerged.edited = (hmExisting.edited \/ hmFresh.edited)
        /\ hmMerged.system = (hmExisting.system \/ hmFresh.system)
        /\ \A f \in {"reactions", "attachments", "tables"} :
              /\ hmFresh[f] # Null => hmMerged[f] = hmFresh[f]
              /\ (hmFresh[f] = Null /\ hmExisting[f] # Null) => hmMerged[f] = hmExisting[f]

\* A re-extraction with another id, an author, no text and an empty list of
\* reactions met a stored message with text and a reaction: the merged
\* message has the old id and text, the fresh author and no reactions.
C18_Witness ==
    /\ hmStage = "merged"
    /\ hmFresh.id # hmExisting.id
    /\ hmFresh.author = Bo /\ hmMerged.author = Bo
    /\ hmFresh.text = EmptyStr /\ hmMerged.text = Hi
    /\ hmExisting.reactions = Some(<<Liked>>) /\ hmMerged.reactions = Some(<<>>)
    /\ hmFresh.attachments = Null /\ hmMerged.attachments = Some(<<Hi>>)
    /\ hmExisting.edited /\ ~hmFresh.edited /\ hmMerged.edited

\* ========================================================================
\* The bounded waits: waitForSelector, waitForRepliesPaneForParent and
\* closeRepliesPane (part_001 lines 694-702, 799-826, 887-913).  Time is in
\* ms; sleep(ms) resumes after ms, or up to MaxLateMs later.
\* ========================================================================
MaxLateMs == 40

SelectorPollMs == 100
PaneNoRunwayPollMs == 120
PanePollMs == 150
CloseClickMs == 200
CloseTimeoutMs == 2000
ClosePollMs == 100
CloseSettleMs == 250

\* timeoutMs: the defaults and the values openRepliesForItem passes
\* (lines 844-847, 850, 866-869, 871).
SelectorTimeouts == {1500, 2000, 3000}
PaneTimeouts == {6000, 6500}

WaitFns == {"waitForSelector", "waitForRepliesPaneForParent", "closeRepliesPane"}
TimeoutsOf(fn) ==
    CASE fn = "waitForSelector" -> SelectorTimeouts
      [] fn = "waitForRepliesPaneForParent" -> PaneTimeouts
      [] OTHER -> {CloseTimeoutMs}

\* How long a sleep(ms) can take.
Sleeps(ms) == {ms, ms + MaxLateMs}

\* A deadline that never passes.
NeverExpired(ms, timeoutMs) == FALSE

\* The negation of the loop condition  Date.now() - start < timeoutMs
Expired(ms, timeoutMs) == ms >= timeoutMs

WaitInit ==
    /\ waitFn \in WaitFns
    /\ waitTimeout \in TimeoutsOf(waitFn)
    /\ waitStage = "called"
    /\ waitNever \in BOOLEAN
    /\ elapsed = 0
    /\ total = 0
    /\ waitResult = ""
    /\ pc = "idle" /\ surface = <<>> /\ agg = <<>> /\ orderCtx = InitOrderCtx
    /\ opts = <<>> /\ pending = <<>> /\ nextPending = <<>> /\ attempts = 0
    /\ filtered = <<>> /\ finalMessages = <<>> /\ out = <<>> /\ err = ""
    /\ lastOp = "init" /\ processed = {} /\ repliesByParent = <<>> /\ response = <<>>
    /\ DriverIdle /\ CollectorIdle /\ MergeIdle /\ DedupIdle /\ HmIdle /\ BgIdle

waitRest == <<waitFn, waitTimeout, waitNever, sessionVars, driverVars,
              collectorVars, mergeVars, dedupVars, hmVars, bgVars>>

\* The statements before the polling loop: none but  start = Date.now()
\* in the two waits; in closeRepliesPane the click on a close button, if one
\* is shown, with its sleep, and the Escape key (lines 896-906).
WaitStart ==
    /\ waitStage = "called"
    /\ IF waitFn = "closeRepliesPane"
       THEN \E shown \in BOOLEAN, d \in Sleeps(CloseClickMs) :
              total' = IF shown THEN total + d ELSE total
       ELSE total' = total
    /\ elapsed' = 0
    /\ waitStage' = "poll"
    /\ UNCHANGED <<waitResult, waitRest>>

\* The loop has gone on sleeping for d ms.
Slept(d) ==
    /\ elapsed' = elapsed + d
    /\ total' = total + d
    /\ waitStage' = "poll"
    /\ waitResult' = waitResult

\* The call is over with result r.
Returns(r) ==
    /\ waitStage' = "returned"
    /\ waitResult' = r
    /\ UNCHANGED <<elapsed, total>>

\* One test of the loop condition and one iteration of the loop.
WaitPoll ==
    /\ waitStage = "poll"
    /\ CASE waitFn = "waitForSelector" ->
              \* lines 696-701
              IF Expired(elapsed, waitTimeout) THEN Returns("null")
              ELSE \E found \in IF waitNever THEN {FALSE} ELSE BOOLEAN :
                     IF found THEN Returns("element")
                     ELSE \E d \in Sleeps(SelectorPollMs) : Slept(d)
         [] waitFn = "waitForRepliesPaneForParent" ->
              \* lines 801-825
              IF Expired(elapsed, waitTimeout) THEN Returns("false")
              ELSE \E runway \in BOOLEAN,
                      match \in IF waitNever THEN {FALSE} ELSE BOOLEAN :
                     IF ~runway THEN \E d \in Sleeps(PaneNoRunwayPollMs) : Slept(d)
                     ELSE IF match THEN Returns("true")
                     ELSE \E d \in Sleeps(PanePollMs) : Slept(d)
         [] OTHER ->
              \* lines 907-909: while (getRepliesRunway() && ... < 2000)
              \E runway \in IF waitNever THEN {TRUE} ELSE BOOLEAN :
                 IF runway /\ ~Expired(elapsed, waitTimeout)
                 THEN \E d \in Sleeps(ClosePollMs) : Slept(d)
                 ELSE /\ waitStage' = "settle"
                      /\ UNCHANGED <<elapsed, total, waitResult>>
    /\ UNCHANGED waitRest

\* await sleep(250) and the return of closeRepliesPane (lines 911-912)
WaitSettle ==
    /\ waitStage = "settle"
    /\ \E d \in Sleeps(CloseSettleMs) : total' = total + d
    /\ waitStage' = "returned"
    /\ waitResult' = "undefined"
    /\ UNCHANGED <<elapsed, waitRest>>

WaitNext ==
    \/ WaitStart
    \/ WaitPoll
    \/ WaitSettle

\* Timers fire: a call that can go on does.
SpecWait ==
    /\ WaitInit
    /\ [][WaitNext]_vars
    /\ WF_vars(WaitStart) /\ WF_vars(WaitPoll) /\ WF_vars(WaitSettle)

\* The time a call may take: its timeout, the sleep that was running when
\* the timeout passed and, in closeRepliesPane, the sleeps before and after
\* the loop.
WaitBudget ==
    CASE waitFn = "waitForSelector" -> waitTimeout + SelectorPollMs + MaxLateMs
      [] waitFn = "waitForRepliesPaneForParent" -> waitTimeout + PanePollMs + MaxLateMs
      [] OTHER -> (CloseClickMs + MaxLateMs)
                    + (CloseTimeoutMs + ClosePollMs + MaxLateMs)
                    + (CloseSettleMs + MaxLateMs)

\* C17: each of the three waits returns, within a bounded time, also when
\* the awaited condition never becomes true: then waitForSelector returns
\* null, waitForRepliesPaneForParent false and closeRepliesPane returns
\* normally; no call ends in a throw.
C17_WaitsAreBounded ==
    /\ <>(waitStage = "returned")
    /\ [](total <= WaitBudget)
    /\ [](waitStage = "returned" =>
            /\ waitResult \in {"null", "element", "false", "true", "undefined"}
            /\ waitNever =>
                  waitResult = CASE waitFn = "waitForSelector" -> "null"
                                 [] waitFn = "waitForRepliesPaneForParent" -> "false"
                                 [] OTHER -> "undefined")

\* The pane of the parent never showed: waitForRepliesPaneForParent has
\* returned false once its 6.5 s were over.
C17_Witness ==
    /\ waitFn = "waitForRepliesPaneForParent"
    /\ waitNever
    /\ waitStage = "returned"
    /\ waitResult = "false"
    /\ elapsed >= 6500

\* ========================================================================
\* The reply collector: maybeCollect queues one job per call, the jobs run
\* one at a time, each opens, scrapes and closes the thread of a parent.
\* The caller (extractWithReplies, lines 1961-1975) awaits every call.
\* ========================================================================
MaxJobs == 2

Parents == {"p1", "p2"}

\* What the nested session of a thread can return: nothing, or replies,
\* the parent itself among them.
PaneResults(parentId) ==
    {<<>>, <<Reply(parentId, TimeToStr(1)), Reply("r1", TimeToStr(2))>>}
\* What the defensive re-scan finds that the nested session has not.
RescanExtras == {<<>>, <<Reply("r2", TimeToStr(3))>>}

\* lines 1687-1693: replies with no id or the parent's id are dropped
FilterReplies(rs, parentId) ==
    SelectSeq(rs, LAMBDA r : r.id # "" /\ r.id # parentId)

\* An uncaught rejection of the job.
UncaughtState(threw) == IF threw THEN "rejected" ELSE "resolved"

\* queue = queue.then(fn).catch(...) (lines 1721-1726): the promise
\* maybeCollect returns resolves whether or not the job threw.
SettledState(threw) == "resolved"

CollectorInit ==
    /\ pc = "collect"
    /\ processed = {}
    /\ repliesByParent = <<>>
    /\ jobs = <<>> /\ jobState = <<>> /\ step = "idle" /\ paneReplies = <<>>
    /\ failure = <<>> /\ scraped = <<>> /\ threadCalls = <<>>
    /\ tries = 0 /\ openMode = <<>> /\ repliesRunway = ""
    /\ surface = <<>> /\ agg = <<>> /\ orderCtx = InitOrderCtx
    /\ opts = <<>> /\ pending = <<>> /\ nextPending = <<>> /\ attempts = 0
    /\ filtered = <<>> /\ finalMessages = <<>> /\ out = <<>> /\ err = ""
    /\ lastOp = "init" /\ response = <<>>
    /\ DriverIdle /\ MergeIdle /\ DedupIdle /\ WaitIdle /\ HmIdle /\ BgIdle

collectorRest == <<surface, agg, orderCtx, opts, pending, nextPending, attempts,
                   filtered, finalMessages, out, err, lastOp, response,
                   driverVars, mergeVars, dedupVars, waitVars, hmVars, bgVars>>

AllSettled == \A j \in 1..Len(jobs) : jobState[j] = "resolved"
RunningJob == CHOOSE j \in 1..Len(jobs) : jobState[j] = "running"

\* A queue that runs a job as soon as it is raised.
Unchained(j) == TRUE

\* queue = queue.then(fn): fn is called when the chain of the jobs raised
\* before it has settled (lines 1720-1726).
EarlierSettled(j) == \A i \in 1..(j - 1) : jobState[i] = "resolved"

\* A collector that forgets the parents it has handled.
NeverProcessed(parentId) == FALSE

\* if (processed.has(parentId)) return (line 1754)
AlreadyProcessed(parentId) == parentId \in processed

\* maybeCollect is called for an extracted message (line 1971): the job is
\* chained to the queue.  The caller of the session awaits every call, but
\* the queue does not depend on it: a call may come while earlier jobs are
\* queued or running.
Enqueue ==
    /\ pc = "collect"
    /\ Len(jobs) < MaxJobs
    /\ \E parent \in Parents :
         /\ jobs' = Append(jobs, parent)
         /\ jobState' = Append(jobState, "queued")
         /\ failure' = Append(failure, {})
         /\ scraped' = Append(scraped, <<>>)
         /\ openMode' = Append(openMode, "")
    /\ UNCHANGED <<pc, processed, repliesByParent, step, paneReplies, threadCalls,
                   tries, repliesRunway, collectorRest>>

\* The end of a job: the map entry if there are replies (line 1776), then
\* the promise settles.
EndJob(j, result, threw, why) ==
    /\ repliesByParent' = IF ~threw /\ result # <<>>
                          THEN AggSet(repliesByParent, jobs[j], result)
                          ELSE repliesByParent
    /\ jobState' = [jobState EXCEPT ![j] = SettledState(threw)]
    /\ failure' = [failure EXCEPT ![j] = @ \cup why]
    /\ step' = "idle"
    /\ paneReplies' = <<>>

\* The job starts (lines 1728-1755): no button or a parent already handled
\* ends it at once.
StartJob ==
    /\ step = "idle"
    /\ \E j \in 1..Len(jobs) :
         /\ jobState[j] = "queued"
         /\ EarlierSettled(j)
         /\ \E hasButton \in BOOLEAN :
              IF ~hasButton \/ AlreadyProcessed(jobs[j])
              THEN /\ jobState' = [jobState EXCEPT ![j] = SettledState(FALSE)]
                   /\ UNCHANGED <<processed, step, threadCalls, tries>>
              ELSE /\ processed' = processed \cup {jobs[j]}
                   /\ tries' = 0
                   /\ threadCalls' = Append(threadCalls, jobs[j])
                   /\ jobState' = [jobState EXCEPT ![j] = "running"]
                   /\ step' = "open"
    /\ UNCHANGED <<pc, repliesByParent, jobs, paneReplies, failure, scraped,
                   openMode, repliesRunway, collectorRest>>

\* const maxTries = 3 (line 832)
maxTries == 3

\* What the clicks of one attempt can bring up: no thread view, the thread
\* of the parent, or a view that shows something else.
OtherThread == "other"
RunwaysAfterClick(parentId) == {"", parentId, OtherThread}

\* A check that takes any thread view for the one of the parent.
AnyRunway(shown, parentId, inTime) == shown # ""

\* waitForRepliesPaneForParent(parentId, 6500) returns true (lines 801-825,
\* 846, 864): the view holds an element of the parent's chain before the
\* time is over.
PaneForParent(shown, parentId, inTime) == shown = parentId /\ inTime

\* closeRepliesPane (lines 887-913): the view is gone when it returns, or it
\* is still shown once the 2 s are over.
RunwaysAfterClose(shown) == {"", shown}

\* One attempt of openRepliesForItem (lines 834-881), called at line 1527:
\* the clicks and the waits for the runway; with a runway, "pane" if the
\* thread of the parent is detected in it, else closeRepliesPane and the
\* next attempt; "fail" after the last attempt (line 883).  A throw ends the
\* job in the catch of the queue.
OpenThread ==
    /\ step = "open"
    /\ LET j == RunningJob IN
       \/ /\ EndJob(j, <<>>, TRUE, {"open-throw"})
          /\ UNCHANGED <<tries, openMode, repliesRunway>>
       \/ \E shown \in RunwaysAfterClick(jobs[j]), inTime \in BOOLEAN :
            /\ tries' = tries + 1
            /\ IF shown # "" /\ PaneForParent(shown, jobs[j], inTime)
               THEN /\ openMode' = [openMode EXCEPT ![j] = "pane"]
                    /\ repliesRunway' = shown
                    /\ step' = "scrape"
                    /\ UNCHANGED <<repliesByParent, jobState, failure, paneReplies>>
               ELSE /\ repliesRunway' \in RunwaysAfterClose(shown)
                    /\ IF tries + 1 < maxTries
                       THEN UNCHANGED <<openMode, step, repliesByParent, jobState,
                                        failure, paneReplies>>
                       ELSE /\ openMode' = [openMode EXCEPT ![j] = "fail"]
                            /\ EndJob(j, <<>>, FALSE, {"open-fail"})
    /\ UNCHANGED <<pc, processed, jobs, scraped, threadCalls, collectorRest>>

\* The nested session (lines 1589-1623): no scroller, a list, or a throw
\* that the catch of line 1682 takes.
ScrapeThread ==
    /\ step = "scrape"
    /\ \/ /\ EndJob(RunningJob, <<>>, FALSE, {"no-scroller"})
          /\ repliesRunway' \in RunwaysAfterClose(repliesRunway)
          /\ UNCHANGED scraped
       \/ \E rs \in PaneResults(jobs[RunningJob]) :
            /\ paneReplies' = rs
            /\ scraped' = [scraped EXCEPT ![RunningJob] = rs]
            /\ step' = "rescan"
            /\ UNCHANGED <<repliesByParent, jobState, failure, repliesRunway>>
       \/ /\ paneReplies' = <<>>
          /\ failure' = [failure EXCEPT ![RunningJob] = @ \cup {"scrape-throw"}]
          /\ step' = "close"
          /\ UNCHANGED <<repliesByParent, jobState, scraped, repliesRunway>>
    /\ UNCHANGED <<pc, processed, jobs, threadCalls, tries, openMode, collectorRest>>

\* The defensive re-scan (lines 1639-1681): it pushes what it finds to the
\* list; a throw in it is taken by the same catch and leaves the list as it
\* stands.
RescanThread ==
    /\ step = "rescan"
    /\ \E extra \in RescanExtras, threw \in BOOLEAN :
         /\ paneReplies' = paneReplies \o extra
         /\ failure' = [failure EXCEPT ![RunningJob] =
                           IF threw THEN @ \cup {"rescan-throw"} ELSE @]
    /\ step' = "close"
    /\ UNCHANGED <<pc, processed, repliesByParent, jobs, jobState, scraped,
                   threadCalls, tries, openMode, repliesRunway, collectorRest>>

\* The filter and closeRepliesPane (lines 1686-1697): the pane closes, stays
\* open past the wait, or the call throws.
CloseThread ==
    /\ step = "close"
    /\ \E outcome \in {"closed", "stays", "throw"} :
         /\ EndJob(RunningJob, FilterReplies(paneReplies, jobs[RunningJob]),
                   outcome = "throw",
                   IF outcome = "closed" THEN {} ELSE {"close-" \o outcome})
         /\ repliesRunway' = IF outcome = "closed" THEN "" ELSE repliesRunway
    /\ UNCHANGED <<pc, processed, jobs, scraped, threadCalls, tries, openMode,
                   collectorRest>>

\* The main session goes on to its end once no call is outstanding.
MainCompletes ==
    /\ pc = "collect"
    /\ step = "idle"
    /\ AllSettled
    /\ pc' = "done"
    /\ UNCHANGED <<processed, repliesByParent, collectorVars, collectorRest>>

CollectorNext ==
    \/ Enqueue
    \/ StartJob
    \/ OpenThread
    \/ ScrapeThread
    \/ RescanThread
    \/ CloseThread
    \/ MainCompletes

\* Every step of a job is a continuation the event loop runs; the main
\* session ends when nothing is left to await.
SpecCollector ==
    /\ CollectorInit
    /\ [][CollectorNext]_vars
    /\ WF_vars(StartJob) /\ WF_vars(OpenThread) /\ WF_vars(ScrapeThread)
    /\ WF_vars(RescanThread) /\ WF_vars(CloseThread) /\ WF_vars(MainCompletes)

\* The failures after which no reply of the thread is kept.
EmptyingFailures == {"open-fail", "open-throw", "no-scroller", "scrape-throw", "close-throw"}
Contributes(j) == AggHas(repliesByParent, jobs[j])

\* C10 as stated: a parent whose thread failed or threw while it was
\* opened, scraped or closed contributes no replies.
C10_FailedThreadYieldsNothing ==
    \A j \in 1..Len(jobs) :
        (jobState[j] = "resolved" /\ failure[j] # {}) => ~Contributes(j)

\* No promise of maybeCollect is rejected; a thread that did not open, whose
\* nested session threw or whose close threw contributes nothing; a thread
\* whose re-scan threw or whose pane stayed open contributes the replies
\* collected up to then.
CollectorDegrades ==
    \A j \in 1..Len(jobs) :
        /\ jobState[j] # "rejected"
        /\ (jobState[j] = "resolved" /\ failure[j] \cap EmptyingFailures # {})
              => ~Contributes(j)
        /\ (jobState[j] = "resolved" /\ failure[j] # {}
              /\ failure[j] \cap EmptyingFailures = {}
              /\ FilterReplies(scraped[j], jobs[j]) # <<>>)
              => /\ Contributes(j)
                 /\ \A k \in 1..Len(FilterReplies(scraped[j], jobs[j])) :
                      AggGet(repliesByParent, jobs[j])[k]
                          = FilterReplies(scraped[j], jobs[j])[k]

\* C10 amended: whatever fails or throws in a job, its promise resolves,
\* the jobs queued later run and the main session completes; the parent
\* contributes nothing unless the failure came after the nested session had
\* returned (a throw of the re-scan, a pane that does not close), in which
\* case the replies collected up to then are kept.
C10_FailuresAreContained ==
    /\ []CollectorDegrades
    /\ \A j \in 1..MaxJobs :
         (j <= Len(jobs)) ~> (j <= Len(jobs) /\ jobState[j] = "resolved")
    /\ <>(pc = "done")

\* A job threw while opening, the next job collected its thread and the
\* main session completed.
C10_Witness ==
    /\ pc = "done"
    /\ Len(jobs) = 2
    /\ "open-throw" \in failure[1]
    /\ ~Contributes(1)
    /\ failure[2] = {}
    /\ Contributes(2)

\* C12: the jobs run one at a time and in request order: a job that has
\* started (is running or has settled) has every job raised before it
\* settled, and at most one job is running, however the calls of
\* maybeCollect interleave with the jobs.
C12_JobsRunInRequestOrder ==
    /\ \A j \in 1..Len(jobs) :
          jobState[j] # "queued"
              => \A i \in 1..(j - 1) : jobState[i] \in {"resolved", "rejected"}
    /\ Cardinality({j \in 1..Len(jobs) : jobState[j] = "running"}) <= 1

\* A second call was raised while the first job was scraping its thread,
\* and waits.
C12_Witness ==
    /\ Len(jobs) = 2
    /\ jobState[1] = "running"
    /\ step = "scrape"
    /\ jobState[2] = "queued"

\* C13: collectRepliesForThread is invoked at most once for a parent
\* identity, however often the parent is handed to maybeCollect.
C13_ParentCollectedOnce ==
    \A a, b \in 1..Len(threadCalls) : a # b => threadCalls[a] # threadCalls[b]

\* The same parent was handed over twice, its thread did not open the first
\* time, and the second job ended without another invocation.
C13_Witness ==
    /\ Len(jobs) = 2
    /\ jobs[1] = jobs[2]
    /\ jobState[1] = "resolved" /\ jobState[2] = "resolved"
    /\ "open-fail" \in failure[1]
    /\ threadCalls = <<jobs[1]>>

\* ========================================================================
\* The Driver: the scroll loop of autoScrollAggregate with the collect of
\* every pass, from the first collect to the returned list.
\* ========================================================================
MaxPasses == 3

\* The items of the list, oldest first, and the time each shows.
DriverItems == <<"m1", "m2">>
ItemTime(item) == IF item = "m1" THEN 1 ELSE 2
DriverRaw(item) ==
    [shape |-> "message", mid |-> DataMid(item), chainId |-> "", author |-> Al,
     ts |-> TimeToStr(ItemTime(item)), midMs |-> Null, text |-> Hi, parsedTs |-> Null]

\* What a pass finds: the rendered items (oldest first), the scroll height,
\* the loading indicator, a visible hidden-history button, the header
\* sentinel in view.
NodeLists == {<<>>, <<"m2">>, <<"m1", "m2">>}
Views ==
    [nodes : NodeLists, height : {1, 2}, loading : BOOLEAN, hidden : BOOLEAN,
     atTop : BOOLEAN]

\* The chat the loop scrolls: rendered bodies, nothing left to load; its
\* scroll container is found or not.
DriverSurface(found) ==
    [messageItems |-> {"m1", "m2"}, controlItems |-> {},
     tsStrings |-> {TimeToStr(1), TimeToStr(2)}, midTimes |-> {Null},
     texts |-> {Hi}, controlTexts |-> {},
     media |-> FALSE, team |-> FALSE, threadItems |-> {}, scroller |-> found]

\* A session that goes on with no scroll container.
NeverMissing(s) == FALSE

\* if (!scroller) throw new Error('Scroller not found') (lines 185-186)
ScrollerMissing(s) == ~s.scroller
ScrollerNotFound == "Scroller not found"

\* A loop whose exits lead straight to hydration.
LoopExitToHydration == "collected"

\* Where a break of the while loop leads: the statements after the
\* try/finally, i.e. the bottom pass (lines 424-433).
LoopExit == "exited"

\* deps.tuning: the thresholds of a chat (stagnation allowance at the top
\* below the one in the middle) and of a channel (above it).
TuningChoices ==
    {[maxStagnant |-> 3, maxStagnantAtTop |-> 2, loadingStallPasses |-> 2],
     [maxStagnant |-> 2, maxStagnantAtTop |-> 3, loadingStallPasses |-> 1]}

\* The tuning the content script passes for a team channel (part_001 lines
\* 1988-1994) and the one of the nested session of a thread (lines 1607-1613)
TeamTuning == [maxStagnant |-> 30, maxStagnantAtTop |-> 35, loadingStallPasses |-> 20]
ThreadTuning == [maxStagnant |-> 6, maxStagnantAtTop |-> 3, loadingStallPasses |-> 3]

\* A resolution that leaves the tuning of the caller aside.
DefaultTuning(depsTuning, hasLoadingSignal) ==
    [maxStagnant |-> IF hasLoadingSignal THEN 20 ELSE 12,
     maxStagnantAtTop |-> IF hasLoadingSignal THEN 6 ELSE 3,
     loadingStallPasses |-> 6]

\* deps.tuning?.x ?? default (title.ts lines 207-210)
ResolveTuning(depsTuning, hasLoadingSignal) ==
    [maxStagnant |->
        IF depsTuning # Null THEN Val(depsTuning).maxStagnant
        ELSE IF hasLoadingSignal THEN 20 ELSE 12,
     maxStagnantAtTop |->
        IF depsTuning # Null THEN Val(depsTuning).maxStagnantAtTop
        ELSE IF hasLoadingSignal THEN 6 ELSE 3,
     loadingStallPasses |->
        IF depsTuning # Null THEN Val(depsTuning).loadingStallPasses ELSE 6]

\* The dependencies the program calls autoScrollAggregate with: no tuning,
\* without isLoading (a chat, part_001 lines 1986-1994) and with it; a team
\* channel; a thread.
Deps(depsTuning, hasLoadingSignal) ==
    [tuning |-> depsTuning, hasLoadingSignal |-> hasLoadingSignal]
ProgramDeps ==
    {Deps(Null, FALSE), Deps(Null, TRUE), Deps(Some(TeamTuning), TRUE),
     Deps(Some(ThreadTuning), TRUE)}

\* What a caller may pass as deps.tuning.
ThresholdValues == {3, 6, 12, 20, 30, 35}
StallValues == {3, 6, 20}
AnyDeps ==
    {Deps(t, h) :
        t \in {Null} \cup {Some([maxStagnant |-> a, maxStagnantAtTop |-> b,
                                 loadingStallPasses |-> c]) :
                              a \in ThresholdValues, b \in ThresholdValues,
                              c \in StallValues},
        h \in BOOLEAN}

\* collectCurrentVisible over the rendered items (title.ts lines 539-578).
RECURSIVE CollectVisible(_, _, _, _)
CollectVisible(a, ctx, nodes, includeSystem) ==
    IF nodes = <<>> THEN [agg |-> a, ctx |-> ctx]
    ELSE IF AggHas(a, getItemId(Head(nodes)))
    THEN CollectVisible(a, ctx, Tail(nodes), includeSystem)
    ELSE LET r == extractOne(DriverRaw(Head(nodes)), includeSystem, ctx)
         IN  CollectVisible(AggAfterResult(a, r.result),
                            CtxAfterResult(r.ctx, r.result),
                            Tail(nodes), includeSystem)

\* The loader is never taken for stuck.
NeverOverridden(noProgress, stallPasses) == FALSE

\* else if (loadingNoProgress > loadingStallPasses) loading = false (line 356)
LoadingOverridden(noProgress, stallPasses) == noProgress > stallPasses

DriverInit ==
    /\ pc = "start"
    /\ agg = <<>>
    /\ orderCtx = InitOrderCtx
    /\ opts \in {[includeSystem |-> FALSE, startLimit |-> l, endLimit |-> Null] :
                    l \in {Null, Some(1)}}
    /\ passes = 0 /\ stagnantPasses = 0 /\ loadingNoProgress = 0
    /\ prevHeight = -1 /\ lastCount = -1 /\ lastOldestId = "" /\ lastAggSize = 0
    /\ topReached = FALSE
    /\ tuning \in TuningChoices
    /\ stuck = FALSE
    /\ progress = Null
    /\ bottomPasses = 0
    /\ surface \in {DriverSurface(found) : found \in BOOLEAN}
    /\ pending = <<>> /\ nextPending = <<>> /\ attempts = 0
    /\ filtered = <<>> /\ finalMessages = <<>> /\ out = <<>> /\ err = ""
    /\ lastOp = "init" /\ processed = {} /\ repliesByParent = <<>> /\ response = <<>>
    /\ CollectorIdle /\ MergeIdle /\ DedupIdle /\ WaitIdle /\ HmIdle /\ BgIdle

driverRest == <<surface, pending, nextPending, attempts, err, lastOp, processed,
                repliesByParent, response, collectorVars, mergeVars, dedupVars,
                waitVars, hmVars, bgVars>>

\* getScroller() yields nothing: the function throws before the store
\* exists (lines 185-188).
Abort ==
    /\ pc = "start"
    /\ ScrollerMissing(surface)
    /\ pc' = "error"
    /\ err' = ScrollerNotFound
    /\ UNCHANGED <<surface, agg, orderCtx, opts, pending, nextPending, attempts,
                   filtered, finalMessages, out, lastOp, processed, repliesByParent,
                   response, driverVars, collectorVars, mergeVars, dedupVars,
                   waitVars, hmVars, bgVars>>

\* The scroll to the newest item and the collect before the loop (lines
\* 240-244).
FirstCollect ==
    /\ pc = "start"
    /\ ~ScrollerMissing(surface)
    /\ \E nodes \in NodeLists :
         LET c == CollectVisible(agg, orderCtx, nodes, opts.includeSystem)
         IN  agg' = c.agg /\ orderCtx' = c.ctx
    /\ pc' = "loop"
    /\ UNCHANGED <<opts, filtered, finalMessages, out, driverVars, driverRest>>

\* The list stops changing with its loader shown.
LoaderSticks ==
    /\ pc = "loop"
    /\ ~stuck
    /\ stuck' = TRUE
    /\ UNCHANGED <<pc, agg, orderCtx, opts, filtered, finalMessages, out, passes,
                   stagnantPasses, loadingNoProgress, prevHeight, lastCount,
                   lastOldestId, lastAggSize, topReached, tuning, progress,
                   bottomPasses, driverRest>>

\* What a pass can find.  Once the list is stuck the loader is shown, no
\* hidden-history button is, and the measurements repeat the recorded ones.
PassViews ==
    IF ~stuck THEN Views
    ELSE {v \in Views :
            /\ v.loading /\ ~v.hidden /\ v.nodes # <<>>
            /\ prevHeight # -1 =>
                  /\ v.height = prevHeight
                  /\ Len(v.nodes) = lastCount
                  /\ v.nodes[1] = lastOldestId}

\* One iteration of the while loop (lines 272-423) that finds the view v.
PassOn(v) ==
    /\ pc = "loop"
    /\ passes' = Min2(passes + 1, MaxPasses)
    /\   LET c == CollectVisible(agg, orderCtx, v.nodes, opts.includeSystem)
             newCount == Len(v.nodes)
             oldestId == v.nodes[1]
             oldestTs == ItemTime(oldestId)
             seen == Len(c.agg)
             heightUnchanged == v.height = prevHeight
             countUnchanged == newCount = lastCount
             oldestUnchanged == lastOldestId = oldestId
             aggUnchanged == seen = lastAggSize
             progressObserved == ~heightUnchanged \/ ~countUnchanged
                                    \/ ~oldestUnchanged \/ ~aggUnchanged
             noProgress == IF ~v.loading THEN 0
                           ELSE IF progressObserved THEN 0
                           ELSE loadingNoProgress + 1
             loading == v.loading
                          /\ ~LoadingOverridden(noProgress, tuning.loadingStallPasses)
             stagnant == IF heightUnchanged /\ countUnchanged THEN stagnantPasses + 1
                         ELSE IF oldestUnchanged THEN stagnantPasses + 1
                         ELSE 0
             top == topReached \/ v.atTop
         IN  /\ agg' = c.agg
             /\ orderCtx' = c.ctx
             /\ IF v.nodes = <<>>
                THEN \* if (!nodes.length) break
                     /\ pc' = LoopExit
                     /\ UNCHANGED <<stagnantPasses, loadingNoProgress, prevHeight,
                                    lastCount, lastOldestId, lastAggSize, topReached,
                                    progress>>
                ELSE IF v.hidden
                THEN \* lines 301-316
                     /\ stagnantPasses' = 0
                     /\ prevHeight' = -1
                     /\ lastCount' = -1
                     /\ lastOldestId' = ""
                     /\ topReached' = top
                     /\ UNCHANGED <<pc, loadingNoProgress, lastAggSize, progress>>
                ELSE /\ loadingNoProgress' = noProgress
                     /\ progress' = Some([passes |-> passes', messagesVisible |-> newCount,
                                          aggregated |-> seen, loading |-> loading])
                     /\ IF opts.startLimit # Null /\ oldestTs <= Val(opts.startLimit)
                        THEN \* line 384
                             /\ pc' = LoopExit
                             /\ UNCHANGED <<stagnantPasses, prevHeight, lastCount,
                                            lastOldestId, lastAggSize, topReached>>
                        ELSE /\ lastOldestId' = oldestId
                             /\ prevHeight' = v.height
                             /\ lastCount' = newCount
                             /\ lastAggSize' = seen
                             /\ topReached' = top
                             /\ IF loading
                                THEN \* lines 386-397
                                     /\ stagnantPasses' = Max2(0, stagnantPasses - 1)
                                     /\ pc' = "loop"
                                ELSE \* lines 399-422
                                     /\ stagnantPasses' = stagnant
                                     /\ pc' = IF \/ top /\ stagnant >= tuning.maxStagnantAtTop
                                                 \/ ~top /\ stagnant >= tuning.maxStagnant
                                              THEN LoopExit ELSE "loop"
    /\ UNCHANGED <<opts, filtered, finalMessages, out, tuning, stuck, bottomPasses,
                   driverRest>>

ScrollPass == \E v \in PassViews : PassOn(v)

\* The bottom pass after the loop (lines 429-433); hydration and the
\* Finalizer follow it (HydrateScan, Finalize).
FinalPass ==
    /\ pc = "exited"
    /\ \E nodes \in NodeLists :
         LET c == CollectVisible(agg, orderCtx, nodes, opts.includeSystem)
         IN  /\ agg' = c.agg
             /\ orderCtx' = c.ctx
    /\ bottomPasses' = bottomPasses + 1
    /\ pc' = "collected"
    /\ UNCHANGED <<opts, filtered, finalMessages, out, passes, stagnantPasses,
                   loadingNoProgress, prevHeight, lastCount, lastOldestId,
                   lastAggSize, topReached, tuning, stuck, progress, driverRest>>

DriverNext ==
    \/ Abort
    \/ FirstCollect
    \/ LoaderSticks
    \/ ScrollPass
    \/ FinalPass
    \/ HydrateScan
    \/ Finalize

\* The loop runs on timers: a pass that can start does start.
SpecDriver ==
    /\ DriverInit
    /\ [][DriverNext]_vars
    /\ WF_vars(ScrollPass)

\* C8: while the list is stuck with its loader shown, a pass that finds
\* loadingNoProgress past loadingStallPasses reports loading as not asserted
\* and counts as stagnant (unless it leaves at the time bound), and the loop
\* is left after finitely many passes.
C8_StuckLoaderExits ==
    /\ [][(stuck /\ pc = "loop"
             /\ loadingNoProgress' > tuning.loadingStallPasses)
           => /\ ~Val(progress').loading
              /\ pc' = "exited" \/ stagnantPasses' = stagnantPasses + 1]_vars
    /\ (stuck /\ pc = "loop") ~> (pc # "loop")

\* The loop was left on stagnation below the top, the loader still shown.
C8_Witness ==
    /\ pc = "exited"
    /\ stuck
    /\ ~topReached
    /\ loadingNoProgress > tuning.loadingStallPasses
    /\ stagnantPasses >= tuning.maxStagnant

\* C11: when the scroll-surface accessor yields nothing at the start, the
\* session ends with the error 'Scroller not found'; in such a session no
\* item is ever stored, no pass of the loop and no bottom pass is made and
\* nothing is returned.
C11_MissingScrollerAborts ==
    /\ [](~surface.scroller =>
            /\ pc \in {"start", "error"}
            /\ agg = <<>> /\ passes = 0 /\ bottomPasses = 0 /\ out = <<>>)
    /\ [][(pc = "start" /\ ~surface.scroller)
            => (pc' = "error" /\ err' = "Scroller not found")]_vars

\* The session has aborted for want of a scroll surface.
C11_Witness ==
    /\ ~surface.scroller
    /\ pc = "error"
    /\ err = "Scroller not found"

\* C14: whichever way the loop is left, one bottom pass is made, and it is
\* made before hydration scans the store and before the Finalizer reads it:
\* the loop is left to the bottom pass only, the count of bottom passes is
\* 0 up to then and 1 from then on.
C14_OneBottomPassAfterLoop ==
    /\ [](bottomPasses = IF pc \in {"start", "loop", "exited", "error"} THEN 0 ELSE 1)
    /\ [][(pc = "loop" /\ pc' # "loop") => pc' = "exited"]_vars
    /\ [][pc = "exited" => (pc' = "collected" /\ bottomPasses' = 1)]_vars
    /\ [][pc' \in {"hydrate", "finalize", "done"}
            => (pc \in {"collected", "hydrate", "finalize"} /\ bottomPasses = 1)]_vars

\* The loop was left on stagnation below the top, the bottom pass found an
\* item no earlier pass had shown, and the returned list holds it.
C14_Witness ==
    /\ pc = "done"
    /\ bottomPasses = 1
    /\ ~topReached
    /\ stagnantPasses >= tuning.maxStagnant
    /\ Len(agg) > lastAggSize
    /\ Len(out) = Len(agg)

\* C16: the scroll loop is left after a bounded number of passes, whatever
\* the surface shows.
C16_LoopIsBounded == (pc = "loop") ~> (pc # "loop")

\* One of the four progress signals of a pass differs from the recorded one
\* (lines 332-335).
SignalsChanged ==
    \/ prevHeight' # prevHeight
    \/ lastCount' # lastCount
    \/ lastOldestId' # lastOldestId
    \/ lastAggSize' # lastAggSize

\* C20: on a pass that reaches the stagnation accounting and stays in the
\* loop, the stagnant-pass counter is incremented if and only if none of the
\* four progress signals changed and loading is not asserted.
C20_StagnantIffNoSignal ==
    [][(pc = "loop" /\ pc' = "loop" /\ stuck' = stuck /\ prevHeight' # -1)
        => (stagnantPasses' = stagnantPasses + 1
              <=> (~SignalsChanged /\ ~Val(progress').loading))]_vars

\* ========================================================================
\* The background worker: the three start-export handlers, the status
\* broadcast and the bookkeeping of exports in flight (background.ts).
\* Every await of a handler is a point where another message may be served.
\* ========================================================================
MaxRequests == 2
MaxBuildStatuses == 2
MaxRuns == 1
ExportTabs == {1, 2}
StartTypes == {"START_EXPORT", "START_EXPORT_FOLDER", "START_EXPORT_ZIP"}
TERMINAL_PHASES == {"complete", "error", "empty"}
MissingTabId == "Missing tabId for export request"
AlreadyRunning == "An export is already running for this tab"
ContextError == "Open a chat conversation before exporting."
EmptyResults == "No messages found for the selected range."
ScriptError == "Failed to reach tab context"

\* Map.prototype.delete
MapDelete(map, k) == SelectSeq(map, LAMBDA e : e.key # k)
\* { ...prev, ...patch }
Spread(prev, patch) ==
    [f \in (DOMAIN prev) \cup (DOMAIN patch) |->
        IF f \in DOMAIN patch THEN patch[f] ELSE prev[f]]

\* updateActiveExport (lines 65-71): the entry is created when there is none
updateActiveExport(map, tabId, patch) ==
    IF tabId = Null THEN map
    ELSE LET prev == IF AggHas(map, Val(tabId)) THEN AggGet(map, Val(tabId)) ELSE <<>>
         IN  AggSet(map, Val(tabId), Spread(prev, patch))

\* broadcastStatus (lines 114-143), as far as it touches activeExports; a
\* payload is [tabId, phase] with phase "" when it names none
broadcastStatus(map, payload) ==
    IF payload.tabId = Null THEN map
    ELSE IF payload.phase # ""
         THEN IF payload.phase \in TERMINAL_PHASES
              THEN updateActiveExport(map, payload.tabId,
                       [lastStatus |-> payload.phase, phase |-> payload.phase,
                        completedAt |-> "now"])
              ELSE updateActiveExport(map, payload.tabId,
                       [lastStatus |-> payload.phase, phase |-> payload.phase])
         ELSE updateActiveExport(map, payload.tabId, [lastStatus |-> ""])

Status(tab, phase) == [tabId |-> Some(tab), phase |-> phase]

\* The finally block of a handler (lines 239-243)
Finally(map, r) == IF r.startedAt # Null THEN MapDelete(map, Val(r.tabId)) ELSE map

\* A catch block that reports a phase the popup does not take for an end.
FailedPhase == "failed"

\* The phase the catch block broadcasts (line 237)
ErrorPhase == "error"

\* The catch block followed by the finally block (lines 235-243)
CatchFinally(map, r) ==
    Finally(broadcastStatus(map, Status(Val(r.tabId), ErrorPhase)), r)

\* The check made before the asynchronous part starts (lines 163-166)
Busy(map, tabId) == AggHas(map, tabId)

\* runtime.sendMessage({ type: 'EXPORT_STATUS', ... }) for each phase in
\* turn (lines 136-141), then sendResponse(answer)
AnsweredAfter(i, phases, answer) ==
    [requests EXCEPT ![i].at = "answered", ![i].answer = answer,
                     ![i].sent = @ \o phases, ![i].responses = @ + 1]
Answered(i, answer) == AnsweredAfter(i, <<>>, answer)
BuildStatuses(r) == Cardinality({k \in 1..Len(r.sent) : r.sent[k] = "build"})
InFlight(i) == requests[i].at \in {"ensure", "context", "scrape", "build"}
Scraping(i) == requests[i].at = "scrape"

ExportInit ==
    /\ activeExports = <<>>
    /\ requests = <<>>
    /\ pc = "idle" /\ surface = <<>> /\ agg = <<>> /\ orderCtx = InitOrderCtx
    /\ opts = <<>> /\ pending = <<>> /\ nextPending = <<>> /\ attempts = 0
    /\ filtered = <<>> /\ finalMessages = <<>> /\ out = <<>> /\ err = ""
    /\ lastOp = "init" /\ processed = {} /\ repliesByParent = <<>> /\ response = <<>>
    /\ DriverIdle /\ CollectorIdle /\ MergeIdle /\ DedupIdle /\ WaitIdle /\ HmIdle

exportRest == <<sessionVars, driverVars, collectorVars, mergeVars, dedupVars,
                waitVars, hmVars>>

\* A start-export message arrives: the synchronous part of the handler
\* (lines 156-170, 247-261, 317-331)
StartExportUpTo(n) ==
    /\ Len(requests) < n
    /\ \E type \in StartTypes, tabId \in {Null} \cup {Some(t) : t \in ExportTabs} :
         LET r == [type |-> type, tabId |-> tabId, startedAt |-> Null,
                   at |-> "ensure", answer |-> "", sent |-> <<>>, responses |-> 0]
         IN  requests' =
               IF tabId = Null
               THEN Append(requests, [r EXCEPT !.at = "answered", !.answer = MissingTabId,
                                               !.responses = 1])
               ELSE IF Busy(activeExports, Val(tabId))
               THEN Append(requests, [r EXCEPT !.at = "answered", !.answer = AlreadyRunning,
                                               !.responses = 1])
               ELSE Append(requests, r)
    /\ UNCHANGED <<activeExports, exportRest>>

StartExport == StartExportUpTo(MaxRequests)

\* ... while no more than MaxRuns requests have been received
StartRun == StartExportUpTo(MaxRuns)

\* await ensureContentScript(tabId) settles (line 174)
EnsureSettles ==
    \E i \in 1..Len(requests), ok \in BOOLEAN :
      /\ requests[i].at = "ensure"
      /\ IF ok
         THEN /\ requests' = [requests EXCEPT ![i].at = "context"]
              /\ UNCHANGED activeExports
         ELSE /\ activeExports' = CatchFinally(activeExports, requests[i])
              /\ requests' = AnsweredAfter(i, <<ErrorPhase>>, ScriptError)
      /\ UNCHANGED exportRest

\* await checkContext(...) settles; on an accepted context the handler runs
\* on to the await of requestScrape (lines 175-187)
ContextSettles ==
    \E i \in 1..Len(requests), res \in {"ok", "refused", "throws"} :
      /\ requests[i].at = "context"
      /\ LET tab == Val(requests[i].tabId) IN
         CASE res = "ok" ->
                /\ activeExports' =
                     broadcastStatus(
                       broadcastStatus(
                         updateActiveExport(activeExports, Some(tab),
                             [startedAt |-> Some("now"), phase |-> "starting",
                              lastStatus |-> ""]),
                         Status(tab, "starting")),
                       Status(tab, "scrape:start"))
                /\ requests' = [requests EXCEPT ![i].at = "scrape",
                                                ![i].startedAt = Some("now"),
                                                ![i].sent = @ \o <<"starting", "scrape:start">>]
           [] res = "refused" ->
                /\ requests' = Answered(i, ContextError)
                /\ UNCHANGED activeExports
           [] OTHER ->
                /\ activeExports' = CatchFinally(activeExports, requests[i])
                /\ requests' = AnsweredAfter(i, <<ErrorPhase>>, ScriptError)
      /\ UNCHANGED exportRest

\* await requestScrape(...) settles (lines 187-197); the folder handler
\* builds synchronously and answers at once (lines 287-303)
ScrapeSettles ==
    \E i \in 1..Len(requests), res \in {"messages", "none", "throws"} :
      /\ requests[i].at = "scrape"
      /\ LET tab == Val(requests[i].tabId)
             r == requests[i]
         IN
         CASE res = "messages" ->
                LET map == broadcastStatus(activeExports, Status(tab, "scrape:complete"))
                IN  IF r.type = "START_EXPORT_FOLDER"
                    THEN /\ activeExports' = Finally(map, r)
                         /\ requests' = AnsweredAfter(i, <<"scrape:complete">>, "ok")
                    ELSE /\ activeExports' = map
                         /\ requests' = [requests EXCEPT ![i].at = "build",
                                            ![i].sent = @ \o <<"scrape:complete">>]
           [] res = "none" ->
                /\ activeExports' =
                     Finally(broadcastStatus(
                               broadcastStatus(activeExports, Status(tab, "scrape:complete")),
                               Status(tab, "empty")), r)
                /\ requests' = AnsweredAfter(i, <<"scrape:complete", "empty">>, EmptyResults)
           [] OTHER ->
                /\ activeExports' = CatchFinally(activeExports, r)
                /\ requests' = AnsweredAfter(i, <<ErrorPhase>>, ScriptError)
      /\ UNCHANGED exportRest

\* The builder reports a phase through onStatus (lines 206, 219)
BuildStatus ==
    \E i \in 1..Len(requests) :
      /\ requests[i].at = "build"
      /\ BuildStatuses(requests[i]) < MaxBuildStatuses
      /\ activeExports' =
           broadcastStatus(activeExports, Status(Val(requests[i].tabId), "build"))
      /\ requests' = [requests EXCEPT ![i].sent = Append(@, "build")]
      /\ UNCHANGED exportRest

\* await buildAndDownload(...) settles (lines 201-244)
BuildSettles ==
    \E i \in 1..Len(requests), ok \in BOOLEAN :
      /\ requests[i].at = "build"
      /\ LET r == requests[i] IN
         IF ok
         THEN /\ activeExports' =
                   Finally(broadcastStatus(activeExports,
                                           Status(Val(r.tabId), "complete")), r)
              /\ requests' = AnsweredAfter(i, <<"complete">>, "ok")
         ELSE /\ activeExports' = CatchFinally(activeExports, r)
              /\ requests' = AnsweredAfter(i, <<ErrorPhase>>, ScriptError)
      /\ UNCHANGED exportRest

\* tabs.onUpdated reports a Teams page loading in the tab (lines 48-54)
TabReloads ==
    \E tab \in ExportTabs :
      /\ AggHas(activeExports, tab)
      /\ activeExports' = MapDelete(activeExports, tab)
      /\ UNCHANGED <<requests, exportRest>>

ExportNext ==
    \/ StartExport
    \/ EnsureSettles
    \/ ContextSettles
    \/ ScrapeSettles
    \/ BuildStatus
    \/ BuildSettles
    \/ TabReloads

SpecExport == ExportInit /\ [][ExportNext]_vars

\* The awaited calls settle: tabs.sendMessage calls back with an answer or
\* with runtime.lastError (lines 73-82), the builder resolves or rejects.
RunNext ==
    \/ StartRun
    \/ EnsureSettles
    \/ ContextSettles
    \/ ScrapeSettles
    \/ BuildStatus
    \/ BuildSettles
    \/ TabReloads

SpecExportSettling ==
    /\ ExportInit /\ [][RunNext]_vars
    /\ WF_vars(EnsureSettles) /\ WF_vars(ContextSettles)
    /\ WF_vars(ScrapeSettles) /\ WF_vars(BuildSettles)

\* C21: for one tab at most one export is in flight: while a start-export
\* request for a tab is unanswered, no second request for the same tab gets
\* as far as a scrape.
C21_OneExportPerTab ==
    \A i, j \in 1..Len(requests) :
        (i # j /\ Scraping(i) /\ Scraping(j)) => requests[i].tabId # requests[j].tabId

\* C22: the step that answers a start-export request which had passed the
\* already-running check leaves no entry for its tab in activeExports, when
\* no other request for that tab is in flight.
C22_AnsweredLeavesNoEntry ==
    [][\A i \in 1..Len(requests) :
         (/\ InFlight(i)
          /\ requests'[i].at = "answered"
          /\ \A j \in 1..Len(requests) :
                (j # i /\ InFlight(j)) => requests[j].tabId # requests[i].tabId)
         => ~AggHas(activeExports', Val(requests[i].tabId))]_vars

\* C23: collection is idempotent per identity: an item that was extracted
\* and stored is skipped whenever a pass shows it again, so no iteration of
\* collectCurrentVisible changes an entry the store already holds.
C23_StoredEntriesNotOverwritten ==
    [][(pc = "collect" /\ pc' = "collect")
        => \A i \in 1..Len(agg) : Len(agg') >= i /\ agg'[i] = agg[i]]_vars

\* The oldest item a pass finds lies at or before the configured start limit.
AtStartLimit(v) ==
    /\ opts.startLimit # Null
    /\ v.nodes # <<>>
    /\ ItemTime(v.nodes[1]) <= Val(opts.startLimit)

\* C24: a pass that finds the oldest visible item at or before a configured
\* start limit leaves the loop at that pass, whatever the counters, the
\* loading signal and a hidden-history button say.
C24_TimeBoundHasPriority ==
    [][\A v \in Views : (PassOn(v) /\ AtStartLimit(v)) => pc' = LoopExit]_vars

\* C25: after a pass that clicked a hidden-history button, the stagnant-pass
\* counter and the loading-without-progress counter are zero and the height,
\* count and oldest-id baselines are cleared.
C25_RevealResetsCounters ==
    [][\A v \in Views : (PassOn(v) /\ v.nodes # <<>> /\ v.hidden)
          => /\ stagnantPasses' = 0
             /\ loadingNoProgress' = 0
             /\ prevHeight' = -1
             /\ lastCount' = -1
             /\ lastOldestId' = ""]_vars

\* ========================================================================
\* The nested session of collectRepliesForThread (part_001 lines 1596-1623):
\* autoScrollAggregate over the replies pane, with the dependencies the call
\* passes.  Replies may still show the placeholder when a pass extracts them.
\* ========================================================================
ThreadPaneSurface ==
    [messageItems |-> {"r1", "r2"}, controlItems |-> {},
     tsStrings |-> {EmptyStr, TimeToStr(1), TimeToStr(2)}, midTimes |-> {Null},
     texts |-> {Hi, PlaceholderText}, controlTexts |-> {},
     media |-> FALSE, team |-> FALSE, threadItems |-> {}, scroller |-> TRUE]

ThreadInit ==
    /\ pc = "collect"
    /\ surface = ThreadPaneSurface
    /\ agg = <<>>
    /\ orderCtx = InitOrderCtx
    /\ opts = [includeSystem |-> FALSE, startLimit |-> Null, endLimit |-> Null]
    /\ pending = <<>> /\ nextPending = <<>> /\ attempts = 0
    /\ filtered = <<>> /\ finalMessages = <<>> /\ out = <<>> /\ err = ""
    /\ lastOp = "init" /\ processed = {} /\ repliesByParent = <<>> /\ response = <<>>
    /\ DriverIdle /\ CollectorIdle /\ MergeIdle /\ DedupIdle /\ WaitIdle /\ HmIdle /\ BgIdle

\* await hydrateSparseMessages(agg, ...) (title.ts line 435) with the
\* dependency of the nested call, hydrateSparseMessages: async () => {}
\* (part_001 line 1601): nothing is queued, nothing is re-extracted.
NoHydration ==
    /\ pc \in {"collect", "collected"}
    /\ pending' = <<>>
    /\ nextPending' = <<>>
    /\ attempts' = 0
    /\ pc' = "finalize"
    /\ lastOp' = "no-hydration"
    /\ UNCHANGED <<surface, agg, orderCtx, opts, filtered, finalMessages, out, err,
                   processed, repliesByParent, response>>
    /\ UNCHANGED <<driverVars, collectorVars, mergeVars, dedupVars, waitVars, hmVars, bgVars>>

ThreadNext ==
    \/ CollectItem
    \/ ExtractThrows
    \/ NoHydration
    \/ Finalize

SpecThread == ThreadInit /\ [][ThreadNext]_vars

\* C26: a thread sub-session runs the Hydrator over its store before it
\* returns the reply list: when the store holds a reply captured with
\* placeholder text, the session does not reach the Finalizer without the
\* Hydrator having scanned the store.
C26_RepliesHydratedBeforeReturn ==
    [][(/\ pc \in {"collect", "collected"}
        /\ pc' = "finalize"
        /\ \E i \in 1..Len(agg) : isPlaceholderText(agg[i].val.message.text))
       => lastOp' = "scan"]_vars

\* C27: a hydration task changes only content fields: every stored entry
\* keeps its key, its order key, its kind, and its message's id and
\* threadId.
C27_HydrationKeepsIdentity ==
    [][pc = "hydrate"
        => /\ Len(agg') = Len(agg)
           /\ \A i \in 1..Len(agg) :
                /\ agg'[i].key = agg[i].key
                /\ agg'[i].val.orderKey10 = agg[i].val.orderKey10
                /\ agg'[i].val.kind = agg[i].val.kind
                /\ agg'[i].val.message.id = agg[i].val.message.id
                /\ agg'[i].val.message.threadId = agg[i].val.message.threadId]_vars

\* C28: a stored text that is non-empty and not the placeholder is never
\* replaced by placeholder text in a hydration task.
C28_RealTextNotLost ==
    [][pc = "hydrate"
        => \A i \in 1..Len(agg) :
              ~isPlaceholderText(agg[i].val.message.text)
                 => /\ Len(agg') >= i
                    /\ ~isPlaceholderText(agg'[i].val.message.text)]_vars

\* C29: the deduplication key falls back to the record's own id when the
\* record has no thread root, so a record without thread root is dropped
\* only for an earlier record of the same id: of records with different ids
\* and no thread root, every one is returned, whatever their author,
\* timestamp and text.
C29_DistinctRecordsNotMerged ==
    dedupStage >= 1
        => \A i \in 1..Len(dedupInput) :
              dedupInput[i].threadId = ""
                 => \E j \in 1..Len(dedupList) : dedupList[j] = dedupInput[i]

\* ========================================================================
\* A session over a chat with a control item next to a message whose time
\* element renders late: the first extraction may find no timestamp, a
\* hydration round finds it.
\* ========================================================================
LateStampSurface ==
    [messageItems |-> {"m1"}, controlItems |-> {"s1"},
     tsStrings |-> {EmptyStr, TimeToStr(1)}, midTimes |-> {Null},
     texts |-> {Hi}, controlTexts |-> {Joined},
     media |-> TRUE, team |-> FALSE, threadItems |-> {}, scroller |-> TRUE]

AnchorInit ==
    /\ pc = "collect"
    /\ surface = LateStampSurface
    /\ agg = <<>>
    /\ orderCtx = InitOrderCtx
    /\ opts = [includeSystem |-> TRUE, startLimit |-> Null, endLimit |-> Null]
    /\ pending = <<>> /\ nextPending = <<>> /\ attempts = 0
    /\ filtered = <<>> /\ finalMessages = <<>> /\ out = <<>> /\ err = ""
    /\ lastOp = "init" /\ processed = {} /\ repliesByParent = <<>> /\ response = <<>>
    /\ DriverIdle /\ CollectorIdle /\ MergeIdle /\ DedupIdle /\ WaitIdle /\ HmIdle /\ BgIdle

AnchorNext ==
    \/ CollectItem
    \/ HydrateScan
    \/ HydrateTask
    \/ Finalize

SpecAnchor == AnchorInit /\ [][AnchorNext]_vars

\* The place of the record with the given id in a list (0 if absent).
PlaceOf(list, id) ==
    IF \E k \in 1..Len(list) : list[k].id = id
    THEN CHOOSE k \in 1..Len(list) : list[k].id = id
    ELSE 0

\* In the store sorted by order key, entry i is a system-control entry the
\* anchoring walk ties to the timestamped message j: j is the first
\* timestamped message after i, and i's own time is missing or not earlier.
AnchoredTo(sorted, i, j) ==
    /\ i < j
    /\ sorted[i].kind = "system-control"
    /\ sorted[j].kind = "message" /\ sorted[j].tsMs # Null
    /\ \A k \in (i + 1)..(j - 1) :
          ~(sorted[k].kind = "message" /\ sorted[k].tsMs # Null)
    /\ (sorted[i].tsMs = Null \/ Val(sorted[i].tsMs) >= Val(sorted[j].tsMs))

\* C30: a system-control entry anchored to a timestamped message M precedes
\* M in the list the Finalizer returns.
C30_AnchoredControlPrecedes ==
    [][(pc = "finalize" /\ pc' = "done")
        => LET sorted == SortByOrderKey(AggValues(agg))
           IN  \A i, j \in 1..Len(sorted) :
                 (/\ AnchoredTo(sorted, i, j)
                  /\ PlaceOf(out', sorted[i].message.id) # 0
                  /\ PlaceOf(out', sorted[j].message.id) # 0)
                 => PlaceOf(out', sorted[i].message.id)
                       < PlaceOf(out', sorted[j].message.id)]_vars

\* C31: any two distinct stored entries whose resolved times are equal or
\* both missing have different order keys, so that the order of the store by
\* (time, order key) does not depend on the order of discovery.
C31_OrderKeysBreakTies ==
    pc \in {"collect", "hydrate", "finalize"}
        => \A i, j \in 1..Len(agg) :
              (i # j /\ agg[i].val.tsMs = agg[j].val.tsMs)
                 => agg[i].val.orderKey10 # agg[j].val.orderKey10

\* C32: openRepliesForItem makes at most three attempts for a parent; it
\* returns "pane" only once the thread of the parent has been detected in
\* the view, otherwise "fail" after the third attempt, and nothing else; a
\* call that has begun ends; after "fail" no replies are recorded for the
\* parent.
C32_OpenIsBoundedAndScoped ==
    /\ [][\A j \in 1..Len(jobs) :
            /\ tries' <= maxTries
            /\ openMode'[j] \in {"", "pane", "fail"}
            /\ (openMode[j] = "" /\ openMode'[j] = "pane") => repliesRunway' = jobs[j]
            /\ (openMode[j] = "" /\ openMode'[j] = "fail")
                  => /\ tries' = maxTries
                     /\ jobState'[j] = "resolved"
            /\ openMode[j] = "fail"
                  => /\ openMode'[j] = "fail"
                     /\ ~AggHas(repliesByParent', jobs[j])]_vars
    /\ (step = "open") ~> (step # "open")

\* The thread of a parent did not open in three attempts: the call returned
\* "fail", the job ended and the parent has no entry in the map; the next
\* job waits for its turn.
C32_Witness ==
    /\ Len(jobs) = 2
    /\ openMode[1] = "fail"
    /\ tries = maxTries
    /\ jobState[1] = "resolved"
    /\ ~Contributes(1)
    /\ jobState[2] = "queued"

\* C33: when a job begins to open its thread, no thread view left by an
\* earlier job is shown.
C33_NoViewLeftAtOpen ==
    (step = "open" /\ tries = 0)
        => \A i \in 1..(RunningJob - 1) :
              openMode[i] = "pane" => repliesRunway # jobs[i]

\* The map entry p was attached to a record the merged list keeps from the
\* top-level stream.
Attached(p) ==
    \E i \in 1..Len(topLevel) :
        /\ i \notin suppressedBaseIndices(topLevel, threadReplies)
        /\ MatchedParent(threadReplies, topLevel[i]) = p
IdsOf(list) == {list[k].id : k \in 1..Len(list)} \ {""}

\* C34: the id of every collected reply is the id of a record of the merged
\* list, whether or not the parent of the reply was found in the stream.
C34_NoReplyLost ==
    mergeStage = "merged" =>
        \A p \in 1..Len(threadReplies) : \A j \in 1..Len(threadReplies[p].val) :
            threadReplies[p].val[j].id # ""
                => threadReplies[p].val[j].id \in IdsOf(mergeOut)

\* A thread whose parent the stream does not show has been merged, and so
\* has a reply that was not emitted itself because the merged list already
\* held its id.
C34_Witness ==
    /\ mergeStage = "merged"
    /\ \E p \in 1..Len(threadReplies) :
          /\ ~Attached(p)
          /\ SlotCount(ReplySlot(p, 1)) = 1
    /\ \E p \in 1..Len(threadReplies) : \E j \in 1..Len(threadReplies[p].val) :
          /\ SlotCount(ReplySlot(p, j)) = 0
          /\ threadReplies[p].val[j].id \in IdsOf(mergeOut)

\* C35: no two records of the merged list have the same non-empty id.
C35_MergedIdsUnique ==
    mergeStage = "merged" =>
        \A a, b \in 1..Len(mergeOut) :
            (a # b /\ mergeOut[a].id # "") => mergeOut[a].id # mergeOut[b].id

\* The positions of the merged list that hold a top-level record or a reply
\* of an attached entry.
AttachedEntries == {p \in 1..Len(threadReplies) : Attached(p)}
TopPart(attached) ==
    {k \in 1..Len(mergePlan) :
        mergePlan[k].src = "top" \/ mergePlan[k].p \in attached}

\* The replies of entry p that the merged list holds come after every
\* top-level record and every reply of an attached entry.
AfterTopPart(p, topPart) ==
    \A k \in 1..Len(mergePlan) :
        (mergePlan[k].src = "reply" /\ mergePlan[k].p = p)
            => \A k2 \in topPart : k2 < k

\* C36: a reply list whose parent key was matched by no record kept from the
\* top-level stream is appended after all top-level records and their
\* replies: each of its replies is there once, unless the list already held
\* its id; a reply list whose parent was matched is not appended again.
C36_OrphansGoLast ==
    mergeStage = "merged" =>
        LET attached == AttachedEntries
            topPart == TopPart(attached)
            ids == IdsOf(mergeOut)
        IN  \A p \in 1..Len(threadReplies) :
              /\ \A j \in 1..Len(threadReplies[p].val) :
                    /\ SlotCount(ReplySlot(p, j)) <= 1
                    /\ SlotCount(ReplySlot(p, j)) = 0
                          => threadReplies[p].val[j].id \in ids
              /\ p \notin attached => AfterTopPart(p, topPart)

\* The stream has two records; the thread of the first was attached to it
\* and the thread of a parent the stream does not show closes the list.
C36_Witness ==
    /\ mergeStage = "merged"
    /\ Len(topLevel) = 2
    /\ Len(threadReplies) = 2
    /\ Attached(1)
    /\ ~Attached(2)
    /\ threadReplies[2].key = "x"
    /\ mergePlan[Len(mergePlan)] = ReplySlot(2, Len(threadReplies[2].val))
    /\ SlotCount(TopSlot(2)) = 1

\* The terminal phases a run has broadcast.
TerminalsSent(r) == {k \in 1..Len(r.sent) : r.sent[k] \in TERMINAL_PHASES}
IsBuiltRun(r) == r.type \in {"START_EXPORT", "START_EXPORT_ZIP"}
HasStarted(r) == \E k \in 1..Len(r.sent) : r.sent[k] = "starting"

C38_EveryPassNotifies ==
    [][\A v \in Views :
          PassOn(v) => (progress' # Null /\ Val(progress').passes = passes')]_vars

\* ========================================================================
\* The thresholds of a session: autoScrollAggregate resolves them from its
\* dependencies before the loop starts (title.ts lines 206-211).
\* ========================================================================
TuningInit ==
    /\ pc = "start"
    /\ opts \in AnyDeps
    /\ tuning = <<>>
    /\ passes = 0 /\ stagnantPasses = 0 /\ loadingNoProgress = 0
    /\ prevHeight = -1 /\ lastCount = -1 /\ lastOldestId = "" /\ lastAggSize = 0
    /\ topReached = FALSE /\ stuck = FALSE /\ progress = Null /\ bottomPasses = 0
    /\ surface = <<>> /\ agg = <<>> /\ orderCtx = InitOrderCtx
    /\ pending = <<>> /\ nextPending = <<>> /\ attempts = 0
    /\ filtered = <<>> /\ finalMessages = <<>> /\ out = <<>> /\ err = ""
    /\ lastOp = "init" /\ processed = {} /\ repliesByParent = <<>> /\ response = <<>>
    /\ CollectorIdle /\ MergeIdle /\ DedupIdle /\ WaitIdle /\ HmIdle /\ BgIdle

\* lines 206-211
ResolveThresholds ==
    /\ pc = "start"
    /\ tuning' = ResolveTuning(opts.tuning, opts.hasLoadingSignal)
    /\ pc' = "loop"
    /\ UNCHANGED <<surface, agg, orderCtx, opts, pending, nextPending, attempts,
                   filtered, finalMessages, out, err, lastOp, processed,
                   repliesByParent, response, passes, stagnantPasses,
                   loadingNoProgress, prevHeight, lastCount, lastOldestId,
                   lastAggSize, topReached, stuck, progress, bottomPasses,
                   collectorVars, mergeVars, dedupVars, waitVars, hmVars, bgVars>>

TuningNext == ResolveThresholds
SpecTuning == TuningInit /\ [][TuningNext]_vars

\* C39: in every configuration the program runs a session with, the
\* allowance of stagnant passes at the top of the list is larger than the
\* one in the middle of it.
C39_TopThresholdLarger ==
    (pc = "loop" /\ opts \in ProgramDeps)
        => tuning.maxStagnantAtTop > tuning.maxStagnant

\* C39 amended: of the configurations the program runs a session with, only
\* the one of a team channel has the larger allowance at the top of the list
\* (35 against 30); the defaults, with and without a loading signal, and the
\* tuning of a thread have the smaller one there (6 against 20, 3 against 12,
\* 3 against 6).
C39_TopLargerOnlyForTeam ==
    (pc = "loop" /\ opts \in ProgramDeps)
        => /\ tuning.maxStagnantAtTop # tuning.maxStagnant
           /\ tuning.maxStagnantAtTop > tuning.maxStagnant
                 <=> opts.tuning = Some(TeamTuning)
           /\ opts = Deps(Null, TRUE)
                 => tuning.maxStagnantAtTop = 6 /\ tuning.maxStagnant = 20
           /\ opts = Deps(Null, FALSE)
                 => tuning.maxStagnantAtTop = 3 /\ tuning.maxStagnant = 12
           /\ opts.tuning = Some(ThreadTuning)
                 => tuning.maxStagnantAtTop = 3 /\ tuning.maxStagnant = 6
           /\ opts.tuning = Some(TeamTuning)
                 => tuning.maxStagnantAtTop = 35 /\ tuning.maxStagnant = 30

\* The thresholds of a team channel have been resolved.
C39_Witness ==
    /\ pc = "loop"
    /\ opts = Deps(Some(TeamTuning), TRUE)
    /\ tuning.maxStagnantAtTop = 35
    /\ tuning.maxStagnant = 30

\* C40: the store never holds an entry of kind day-divider: the iteration of
\* collectCurrentVisible that extracts a day divider leaves the store as it
\* is and changes nothing of the context but lastTimeMs and yearHint.
C40_DividersNotStored ==
    /\ [](\A i \in 1..Len(agg) : agg[i].val.kind # "day-divider")
    /\ [][(CollectItem /\ lastOp' = "divider")
            => /\ agg' = agg
               /\ orderCtx' = [orderCtx EXCEPT !.lastTimeMs = orderCtx'.lastTimeMs,
                                               !.yearHint = orderCtx'.yearHint]]_vars

\* A day divider has been extracted after a message was stored: the context
\* carries the day, the store holds the message alone.
C40_Witness ==
    /\ pc = "collect"
    /\ lastOp = "divider"
    /\ Len(agg) = 1
    /\ agg[1].val.kind = "message"
    /\ orderCtx.lastTimeMs # Null
    /\ orderCtx.yearHint # Null
====
